---------------------------- MODULE Spec2Model ----------------------------
(***************************************************************************)
(* RestaurantMaster: the HTTP API of server/routes.ts over the storage of  *)
(* server/storage.ts (the exported `storage` is a DatabaseStorage) and the *)
(* tables of shared/schema.ts.                                             *)
(*                                                                         *)
(* One action per route.  An action is the whole handler: the middleware   *)
(* chain, the storage calls, the activity-log insert and the response.     *)
(* The request and the response of the last handled call are kept in       *)
(* lastReq / lastRes so that properties can speak about what was answered. *)
(*                                                                         *)
(* Rows carry the columns the handlers branch on or copy; free-text        *)
(* columns that no handler reads (email, phone, colours, ...) are left out.*)
(***************************************************************************)
EXTENDS Integers, Sequences, FiniteSets, TLC

VARIABLES users, restaurants, categories, menuItems, socialMediaLinks,
          qrCodes, activityLogs, serial, sessions, lastReq, lastRes, pending

tables == <<users, restaurants, categories, menuItems, socialMediaLinks, qrCodes>>
storageVars == <<users, restaurants, categories, menuItems, socialMediaLinks,
                 qrCodes, activityLogs, serial>>
vars == <<users, restaurants, categories, menuItems, socialMediaLinks,
          qrCodes, activityLogs, serial, sessions, lastReq, lastRes, pending>>

-----------------------------------------------------------------------------
(* Bounds *)

\* The activity log only grows; handlers that would append are not taken
\* once it holds MaxLog rows written since the server started.
MaxLog == 2

-----------------------------------------------------------------------------
(* Values *)

\* JavaScript `undefined` for a numeric slot (session.userId, a missing row id).
Undefined == -1
\* SQL NULL in a nullable integer column of activity_logs.
NULL == -2

Roles == {"super_admin", "restaurant_admin"}
Statuses == {"setup", "active", "inactive"}

NoBody == [x \in {} |-> 0]

\* { ...a, ...b }
Spread(a, b) ==
    [k \in (DOMAIN a) \cup (DOMAIN b) |-> IF k \in DOMAIN b THEN b[k] ELSE a[k]]
\* delete obj.k
Delete(obj, k) == [x \in (DOMAIN obj) \ {k} |-> obj[x]]
\* zod object parse keeps the schema's keys and drops the others
Strip(obj, keys) == [x \in (DOMAIN obj) \cap keys |-> obj[x]]

Max(S) == CHOOSE x \in S : \A y \in S : y <= x
Min(S) == CHOOSE x \in S : \A y \in S : x <= y

RECURSIVE AscIds(_)
AscIds(S) == IF S = {} THEN <<>> ELSE <<Min(S)>> \o AscIds(S \ {Min(S)})

\* A row as the API returns it: the columns plus its id.
WithId(table, id) == Spread(table[id], [id |-> id])
\* The rows of `table` with ids in S, in id order.
Rows(table, S) == [i \in 1..Cardinality(S) |-> WithId(table, AscIds(S)[i])]

-----------------------------------------------------------------------------
(* shared/schema.ts: columns, insert schemas, constraints *)

UserKeys == {"username", "password", "role"}
UserRequired == {"username", "password"}
UserDefaults == [role |-> "restaurant_admin"]

RestaurantKeys == {"name", "adminId", "status"}
RestaurantRequired == {"name", "adminId"}
RestaurantDefaults == [status |-> "setup"]

CategoryKeys == {"name", "displayOrder", "restaurantId"}
CategoryRequired == {"name", "restaurantId"}
CategoryDefaults == [displayOrder |-> 0]

MenuItemKeys == {"name", "discountPrice", "featured", "categoryId", "restaurantId"}
MenuItemRequired == {"name", "categoryId", "restaurantId"}

SocialMediaLinkKeys == {"platform", "restaurantId"}
SocialMediaLinkRequired == {"platform", "restaurantId"}

QRCodeKeys == {"label", "restaurantId"}
QRCodeRequired == {"label", "restaurantId"}

\* insertXSchema.parse(body): a ZodError when a required key is missing.
ZodOk(body, required) == required \subseteq DOMAIN body

\* no unique index on users.username
UsernameAlwaysFree(id, name) == TRUE
\* users.username is UNIQUE: may row `id` (Undefined for an insert) take `name`?
UsernameFree(id, name) ==
    \A u \in DOMAIN users : u # id => users[u].username # name

\* Foreign keys (no ON DELETE action: a referenced row cannot be deleted).
\* no foreign key to users.id
UserNeverReferenced(id) == FALSE
UserReferenced(id) ==
    \/ \E r \in DOMAIN restaurants : restaurants[r].adminId = id
    \/ \E i \in 1..Len(activityLogs) : activityLogs[i].userId = id
\* no foreign key to restaurants.id
RestaurantNeverReferenced(id) == FALSE
RestaurantReferenced(id) ==
    \/ \E c \in DOMAIN categories : categories[c].restaurantId = id
    \/ \E m \in DOMAIN menuItems : menuItems[m].restaurantId = id
    \/ \E l \in DOMAIN socialMediaLinks : socialMediaLinks[l].restaurantId = id
    \/ \E q \in DOMAIN qrCodes : qrCodes[q].restaurantId = id
    \/ \E i \in 1..Len(activityLogs) : activityLogs[i].restaurantId = id
\* no foreign key from menu_items.category_id
CategoryNeverReferenced(id) == FALSE
CategoryReferenced(id) ==
    \E m \in DOMAIN menuItems : menuItems[m].categoryId = id

-----------------------------------------------------------------------------
(* server/storage.ts: DatabaseStorage *)

\* getUser / getRestaurant / ... : the row, or undefined
Exists(table, id) == id \in DOMAIN table

\* `row.k || null` on the nullable integer columns: a 0 is stored as NULL
FalsyAsNull(row) ==
    [k \in DOMAIN row |->
        IF k \in {"displayOrder", "discountPrice"} /\ row[k] = 0 THEN NULL ELSE row[k]]
InsertFalsyAsNull(table, id, row) ==
    [x \in (DOMAIN table) \cup {id} |-> IF x = id THEN FalsyAsNull(row) ELSE table[x]]
\* insert(...).values(row).returning(): the table with the new row under the
\* next serial id
Insert(table, id, row) == [x \in (DOMAIN table) \cup {id} |-> IF x = id THEN row ELSE table[x]]
\* update(...).set(patch).where(id)
Update(table, id, patch) == [table EXCEPT ![id] = Spread(table[id], patch)]
\* delete(...).where(id)
Remove(table, id) == [x \in (DOMAIN table) \ {id} |-> table[x]]

\* createActivityLog(logData): missing columns are stored as NULL
\* a row that never names a restaurant
LogRowWithoutRestaurant(userId, action, entityType, entityId, restaurantId) ==
    [userId |-> userId, action |-> action, entityType |-> entityType,
     entityId |-> entityId, restaurantId |-> NULL, createdAt |-> 1]
\* created_at (defaultNow) is kept at the resolution the model needs: 0 for
\* a row the server found when it started, 1 for a row written since
LogRow(userId, action, entityType, entityId, restaurantId) ==
    [userId |-> userId, action |-> action, entityType |-> entityType,
     entityId |-> entityId, restaurantId |-> restaurantId, createdAt |-> 1]
\* the rows written since the server started
WrittenSinceStart == SelectSeq(activityLogs, LAMBDA row : row.createdAt = 1)

\* the log keeps only the newest row
createActivityLogOverwriting(row) ==
    /\ Len(WrittenSinceStart) < MaxLog
    /\ activityLogs' = <<row>>
createActivityLog(row) ==
    /\ Len(WrittenSinceStart) < MaxLog
    /\ activityLogs' = Append(activityLogs, row)

-----------------------------------------------------------------------------
(* Requests and responses *)

NoRequest == [method |-> "", route |-> "", session |-> Undefined,
              id |-> Undefined, body |-> NoBody]
NoResponse == [status |-> 0, message |-> "", data |-> <<>>]

\* The requests whose handler has started and has not answered yet, by the
\* position the handler is at; none while requests are served one at a time.
Procs == {"p", "q"}
Idle == [pc |-> "idle"]
NoPending == [p \in Procs |-> Idle]

\* A request arrives carrying session s (the userId its session stores, or
\* Undefined); requests are served one at a time.
Request(method, route, s, id, body) ==
    /\ lastReq = NoRequest
    /\ lastReq' = [method |-> method, route |-> route, session |-> s,
                   id |-> id, body |-> body]
    /\ UNCHANGED pending

\* res.status(status).json(...): a {message} body or the returned rows
Reply(status, message, data) ==
    lastRes' = [status |-> status, message |-> message, data |-> data]

\* an id of the table, or one that names no row
Ids(table, next) == (DOMAIN table) \cup {next}

-----------------------------------------------------------------------------
(* server/routes.ts: middleware *)

NoUser == [id |-> Undefined, role |-> "none"]
Pass(user) == [next |-> TRUE, status |-> 200, message |-> "", user |-> user]
Stop(status, message) ==
    [next |-> FALSE, status |-> status, message |-> message, user |-> NoUser]

\* the middleware without its first test: a request with no session goes on
\* as an anonymous caller
authMiddlewareNoSessionCheck(s) ==
    IF s = Undefined THEN Pass(NoUser)
    ELSE IF ~Exists(users, s) THEN Stop(401, "User not found")
    ELSE Pass([id |-> s, role |-> users[s].role])

\* the middleware without its lookup of the stored user: the session alone
\* authenticates, and a user that is not stored has no role
authMiddlewareSessionOnly(s) ==
    IF s = Undefined THEN Stop(401, "Unauthorized")
    ELSE Pass([id |-> s, role |-> IF Exists(users, s) THEN users[s].role ELSE "none"])

\* s is req.session.userId
authMiddleware(s) ==
    IF s = Undefined THEN Stop(401, "Unauthorized")
    ELSE IF ~Exists(users, s) THEN Stop(401, "User not found")
    ELSE Pass([id |-> s, role |-> users[s].role])

\* every authenticated user passes
superAdminMiddlewareAnyRole(user) == Pass(user)
superAdminMiddleware(user) ==
    IF user.role # "super_admin"
    THEN Stop(403, "Forbidden: Super admin access required")
    ELSE Pass(user)

\* restaurantId is req.params.restaurantId: Undefined on a route whose
\* path has no :restaurantId parameter
validateOwnership(user, restaurantId) ==
    IF restaurantId = Undefined THEN Pass(user)
    ELSE IF user.role = "super_admin" THEN Pass(user)
    ELSE IF ~Exists(restaurants, restaurantId) THEN Stop(404, "Restaurant not found")
    ELSE IF restaurants[restaurantId].adminId # user.id
    THEN Stop(403, "Forbidden: You don't have access to this restaurant")
    ELSE Pass(user)

\* the refusal is recorded in the activity log
RefuseLogged(status, message) ==
    /\ Reply(status, message, <<>>)
    /\ createActivityLog(LogRow(NULL, "refused", "request", NULL, NULL))
    /\ UNCHANGED <<tables, serial, sessions>>
\* a middleware or a handler answered without touching storage
Refuse(status, message) ==
    /\ Reply(status, message, <<>>)
    /\ UNCHANGED <<storageVars, sessions>>

\* the chain without its role check
AdminChainAuthOnly(s) == authMiddleware(s)
\* authMiddleware, superAdminMiddleware
AdminChain(s) ==
    LET a == authMiddleware(s) IN
    IF ~a.next THEN a ELSE superAdminMiddleware(a.user)

\* authMiddleware, validateOwnership
OwnerChain(s, restaurantId) ==
    LET a == authMiddleware(s) IN
    IF ~a.next THEN a ELSE validateOwnership(a.user, restaurantId)

\* the inline check of the handlers addressed by child id
HasAccess(user, restaurantId) ==
    user.role = "super_admin" \/ restaurants[restaurantId].adminId = user.id

-----------------------------------------------------------------------------
(* Authentication routes *)

UserByUsername(username) ==
    IF \E u \in DOMAIN users : users[u].username = username
    THEN CHOOSE u \in DOMAIN users : users[u].username = username
    ELSE Undefined

PublicUser(id) == Delete(WithId(users, id), "password")

Login(s, username, password) ==
    /\ Request("POST", "/api/auth/login", s, Undefined,
               [username |-> username, password |-> password])
    /\ IF username = "" \/ password = ""
       THEN Refuse(400, "Username and password are required")
       ELSE LET id == UserByUsername(username) IN
            IF id = Undefined \/ users[id].password # password
            THEN Refuse(401, "Invalid credentials")
            ELSE /\ sessions' = (sessions \ {s}) \cup {id}
                 /\ createActivityLog(LogRow(id, "login", "user", id, NULL))
                 /\ Reply(200, "", <<PublicUser(id)>>)
                 /\ UNCHANGED <<tables, serial>>

Logout(s) ==
    /\ Request("POST", "/api/auth/logout", s, Undefined, NoBody)
    /\ sessions' = sessions \ {s}
    /\ Reply(200, "Logged out successfully", <<>>)
    /\ UNCHANGED storageVars

GetMe(s) ==
    /\ Request("GET", "/api/auth/me", s, Undefined, NoBody)
    /\ LET a == authMiddleware(s) IN
       IF ~a.next THEN Refuse(a.status, a.message)
       ELSE IF ~Exists(users, a.user.id) THEN Refuse(404, "User not found")
       ELSE /\ Reply(200, "", <<PublicUser(a.user.id)>>)
            /\ UNCHANGED <<storageVars, sessions>>

-----------------------------------------------------------------------------
(* User routes *)

GetUsers(s) ==
    /\ Request("GET", "/api/users", s, Undefined, NoBody)
    /\ LET m == AdminChain(s) IN
       IF ~m.next THEN Refuse(m.status, m.message)
       ELSE /\ Reply(200, "", [i \in 1..Cardinality(DOMAIN users) |->
                                  PublicUser(AscIds(DOMAIN users)[i])])
            /\ UNCHANGED <<storageVars, sessions>>

GetUser(s, id) ==
    /\ Request("GET", "/api/users/:id", s, id, NoBody)
    /\ LET m == AdminChain(s) IN
       IF ~m.next THEN Refuse(m.status, m.message)
       ELSE IF ~Exists(users, id) THEN Refuse(404, "User not found")
       ELSE /\ Reply(200, "", <<PublicUser(id)>>)
            /\ UNCHANGED <<storageVars, sessions>>

PostUser(s, body) ==
    /\ Request("POST", "/api/users", s, Undefined, body)
    /\ LET m == AdminChain(s)
           userData == Strip(body, UserKeys)
           id == serial.users
       IN
       IF ~m.next THEN Refuse(m.status, m.message)
       ELSE IF ~ZodOk(body, UserRequired) THEN Refuse(400, "Validation error")
       ELSE IF ~UsernameFree(Undefined, userData.username)
       THEN Refuse(500, "Internal server error")
       ELSE /\ users' = Insert(users, id, Spread(UserDefaults, userData))
            /\ serial' = [serial EXCEPT !.users = id + 1]
            /\ createActivityLog(LogRow(m.user.id, "create", "user", id, NULL))
            /\ Reply(201, "", <<Delete(Spread(users'[id], [id |-> id]), "password")>>)
            /\ UNCHANGED <<restaurants, categories, menuItems, socialMediaLinks,
                           qrCodes, sessions>>

PutUser(s, id, body) ==
    /\ Request("PUT", "/api/users/:id", s, id, body)
    /\ LET m == AdminChain(s)
           userData == Strip(body, UserKeys)
       IN
       IF ~m.next THEN Refuse(m.status, m.message)
       ELSE IF ~Exists(users, id) THEN Refuse(404, "User not found")
       ELSE IF "username" \in DOMAIN userData /\ ~UsernameFree(id, userData.username)
       THEN Refuse(500, "Internal server error")
       ELSE /\ users' = Update(users, id, userData)
            /\ createActivityLog(LogRow(m.user.id, "update", "user", id, NULL))
            /\ Reply(200, "", <<Delete(Spread(users'[id], [id |-> id]), "password")>>)
            /\ UNCHANGED <<restaurants, categories, menuItems, socialMediaLinks,
                           qrCodes, serial, sessions>>

\* filter(u => u.role === "super_admin")
SuperAdmins == {u \in DOMAIN users : users[u].role = "super_admin"}

DeleteUser(s, id) ==
    /\ Request("DELETE", "/api/users/:id", s, id, NoBody)
    /\ LET m == AdminChain(s) IN
       IF ~m.next THEN Refuse(m.status, m.message)
       ELSE IF ~Exists(users, id) THEN Refuse(404, "User not found")
       ELSE IF users[id].role = "super_admin" /\ Cardinality(SuperAdmins) <= 1
       THEN Refuse(400, "Cannot delete the only super admin")
       ELSE IF UserReferenced(id) THEN Refuse(500, "Internal server error")
       ELSE /\ users' = Remove(users, id)
            /\ createActivityLog(LogRow(m.user.id, "delete", "user", id, NULL))
            /\ Reply(200, "User deleted successfully", <<>>)
            /\ UNCHANGED <<restaurants, categories, menuItems, socialMediaLinks,
                           qrCodes, serial, sessions>>

-----------------------------------------------------------------------------
(* Restaurant routes *)

\* the filter left out: every restaurant, whoever its admin is
OwnedByAnyone(adminId) == DOMAIN restaurants
\* where(eq(restaurants.adminId, adminId))
OwnedBy(adminId) == {r \in DOMAIN restaurants : restaurants[r].adminId = adminId}

GetRestaurants(s) ==
    /\ Request("GET", "/api/restaurants", s, Undefined, NoBody)
    /\ LET a == authMiddleware(s) IN
       IF ~a.next THEN Refuse(a.status, a.message)
       ELSE /\ Reply(200, "",
                     IF a.user.role = "super_admin"
                     THEN Rows(restaurants, DOMAIN restaurants)
                     ELSE Rows(restaurants, OwnedBy(a.user.id)))
            /\ UNCHANGED <<storageVars, sessions>>

GetRestaurant(s, id) ==
    /\ Request("GET", "/api/restaurants/:id", s, id, NoBody)
    /\ LET a == authMiddleware(s) IN
       IF ~a.next THEN Refuse(a.status, a.message)
       ELSE IF ~Exists(restaurants, id) THEN Refuse(404, "Restaurant not found")
       ELSE IF a.user.role # "super_admin" /\ restaurants[id].adminId # a.user.id
       THEN Refuse(403, "Forbidden: You don't have access to this restaurant")
       ELSE /\ Reply(200, "", <<WithId(restaurants, id)>>)
            /\ UNCHANGED <<storageVars, sessions>>

\* if (req.user?.role !== "super_admin") restaurantData = {...restaurantData, adminId: req.user?.id}
\* the payload stored as sent
CreateRestaurantDataAsSent(user, body) == body
CreateRestaurantData(user, body) ==
    IF user.role # "super_admin" THEN Spread(body, [adminId |-> user.id]) ELSE body

PostRestaurant(s, body) ==
    /\ Request("POST", "/api/restaurants", s, Undefined, body)
    /\ LET a == authMiddleware(s)
           restaurantData == CreateRestaurantData(a.user, body)
           validatedData == Strip(restaurantData, RestaurantKeys)
           id == serial.restaurants
       IN
       IF ~a.next THEN Refuse(a.status, a.message)
       ELSE IF ~ZodOk(restaurantData, RestaurantRequired)
       THEN Refuse(400, "Validation error")
       ELSE IF ~Exists(users, validatedData.adminId)
       THEN Refuse(500, "Internal server error")
       ELSE /\ restaurants' = Insert(restaurants, id,
                                     Spread(RestaurantDefaults, validatedData))
            /\ serial' = [serial EXCEPT !.restaurants = id + 1]
            /\ createActivityLog(LogRow(a.user.id, "create", "restaurant", id, id))
            /\ Reply(201, "", <<Spread(restaurants'[id], [id |-> id])>>)
            /\ UNCHANGED <<users, categories, menuItems, socialMediaLinks,
                           qrCodes, sessions>>

\* the payload updated as sent
UpdateRestaurantDataAsSent(user, body) == body
\* if (req.user?.role !== "super_admin" && 'adminId' in restaurantData) delete restaurantData.adminId
UpdateRestaurantData(user, body) ==
    IF user.role # "super_admin" /\ "adminId" \in DOMAIN body
    THEN Delete(body, "adminId")
    ELSE body

PutRestaurant(s, id, body) ==
    /\ Request("PUT", "/api/restaurants/:id", s, id, body)
    /\ LET m == OwnerChain(s, Undefined)
           restaurantData == UpdateRestaurantData(m.user, body)
           validatedData == Strip(restaurantData, RestaurantKeys)
       IN
       IF ~m.next THEN Refuse(m.status, m.message)
       ELSE IF ~Exists(restaurants, id) THEN Refuse(404, "Restaurant not found")
       ELSE IF "adminId" \in DOMAIN validatedData /\ ~Exists(users, validatedData.adminId)
       THEN Refuse(500, "Internal server error")
       ELSE /\ restaurants' = Update(restaurants, id, validatedData)
            /\ createActivityLog(LogRow(m.user.id, "update", "restaurant", id, id))
            /\ Reply(200, "", <<Spread(restaurants'[id], [id |-> id])>>)
            /\ UNCHANGED <<users, categories, menuItems, socialMediaLinks,
                           qrCodes, serial, sessions>>

DeleteRestaurant(s, id) ==
    /\ Request("DELETE", "/api/restaurants/:id", s, id, NoBody)
    /\ LET m == AdminChain(s) IN
       IF ~m.next THEN Refuse(m.status, m.message)
       ELSE IF ~Exists(restaurants, id) THEN Refuse(404, "Restaurant not found")
       ELSE IF RestaurantReferenced(id) THEN Refuse(500, "Internal server error")
       ELSE /\ restaurants' = Remove(restaurants, id)
            /\ createActivityLog(LogRow(m.user.id, "delete", "restaurant", id, NULL))
            /\ Reply(200, "Restaurant deleted successfully", <<>>)
            /\ UNCHANGED <<users, categories, menuItems, socialMediaLinks,
                           qrCodes, serial, sessions>>

-----------------------------------------------------------------------------
(* Routes addressed by child id: the inline access check *)

\* const x = await storage.getX(id); if (!x) 404;
\* const restaurant = await storage.getRestaurant(x.restaurantId); if (!restaurant) 404;
\* if (role !== "super_admin" && restaurant.adminId !== req.user.id) 403
ChildAccess(user, table, id, what) ==
    IF ~Exists(table, id) THEN Stop(404, what)
    ELSE IF ~Exists(restaurants, table[id].restaurantId)
    THEN Stop(404, "Restaurant not found")
    ELSE IF ~HasAccess(user, table[id].restaurantId)
    THEN Stop(403, "Forbidden: You don't have access to this restaurant")
    ELSE Pass(user)

\* authMiddleware, then the inline check
ChildChain(s, table, id, what) ==
    LET a == authMiddleware(s) IN
    IF ~a.next THEN a ELSE ChildAccess(a.user, table, id, what)

\* req.body.k, undefined when the key is absent
Field(body, k) == IF k \in DOMAIN body THEN body[k] ELSE Undefined
\* if (categoryId): neither undefined nor 0
Truthy(n) == n # Undefined /\ n # 0

Of(table, restaurantId) == {x \in DOMAIN table : table[x].restaurantId = restaurantId}

-----------------------------------------------------------------------------
(* Category routes *)

\* display_order ASC as PostgreSQL compares it: NULL sorts after every number
NotAfter(a, b) == b = NULL \/ (a # NULL /\ a <= b)

\* the ids of S in every order that is ascending in displayOrder; rows of
\* equal displayOrder come back in any order
ByDisplayOrder(S) ==
    {ids \in [1..Cardinality(S) -> S] :
        \A i, j \in 1..Cardinality(S) :
            i < j => /\ ids[i] # ids[j]
                     /\ NotAfter(categories[ids[i]].displayOrder,
                                 categories[ids[j]].displayOrder)}

\* the row lists the query may return
getCategoriesByRestaurantId(restaurantId) ==
    {[i \in 1..Len(ids) |-> WithId(categories, ids[i])] :
        ids \in ByDisplayOrder(Of(categories, restaurantId))}

GetCategories(s, restaurantId) ==
    /\ Request("GET", "/api/restaurants/:restaurantId/categories", s, restaurantId, NoBody)
    /\ LET m == OwnerChain(s, restaurantId) IN
       IF ~m.next THEN Refuse(m.status, m.message)
       ELSE /\ \E rows \in getCategoriesByRestaurantId(restaurantId) :
                   Reply(200, "", rows)
            /\ UNCHANGED <<storageVars, sessions>>

PostCategory(s, restaurantId, body) ==
    /\ Request("POST", "/api/restaurants/:restaurantId/categories", s, restaurantId, body)
    /\ LET m == OwnerChain(s, restaurantId)
           categoryData == Spread(body, [restaurantId |-> restaurantId])
           validatedData == Strip(categoryData, CategoryKeys)
           id == serial.categories
       IN
       IF ~m.next THEN Refuse(m.status, m.message)
       ELSE IF ~ZodOk(categoryData, CategoryRequired) THEN Refuse(400, "Validation error")
       ELSE IF ~Exists(restaurants, restaurantId) THEN Refuse(500, "Internal server error")
       ELSE /\ categories' = Insert(categories, id, Spread(CategoryDefaults, validatedData))
            /\ serial' = [serial EXCEPT !.categories = id + 1]
            /\ createActivityLog(LogRow(m.user.id, "create", "category", id, restaurantId))
            /\ Reply(201, "", <<Spread(categories'[id], [id |-> id])>>)
            /\ UNCHANGED <<users, restaurants, menuItems, socialMediaLinks,
                           qrCodes, sessions>>

PutCategory(s, id, body) ==
    /\ Request("PUT", "/api/categories/:id", s, id, body)
    /\ LET m == ChildChain(s, categories, id, "Category not found")
           categoryData == Delete(body, "restaurantId")
           validatedData == Strip(categoryData, CategoryKeys)
       IN
       IF ~m.next THEN Refuse(m.status, m.message)
       ELSE /\ categories' = Update(categories, id, validatedData)
            /\ createActivityLog(LogRow(m.user.id, "update", "category", id,
                                        categories[id].restaurantId))
            /\ Reply(200, "", <<Spread(categories'[id], [id |-> id])>>)
            /\ UNCHANGED <<users, restaurants, menuItems, socialMediaLinks,
                           qrCodes, serial, sessions>>

DeleteCategory(s, id) ==
    /\ Request("DELETE", "/api/categories/:id", s, id, NoBody)
    /\ LET m == ChildChain(s, categories, id, "Category not found") IN
       IF ~m.next THEN Refuse(m.status, m.message)
       ELSE IF CategoryReferenced(id) THEN Refuse(500, "Internal server error")
       ELSE /\ categories' = Remove(categories, id)
            /\ createActivityLog(LogRow(m.user.id, "delete", "category", id,
                                        categories[id].restaurantId))
            /\ Reply(200, "Category deleted successfully", <<>>)
            /\ UNCHANGED <<users, restaurants, menuItems, socialMediaLinks,
                           qrCodes, serial, sessions>>

-----------------------------------------------------------------------------
(* Menu item routes *)

GetMenuItems(s, restaurantId) ==
    /\ Request("GET", "/api/restaurants/:restaurantId/menu-items", s, restaurantId, NoBody)
    /\ LET m == OwnerChain(s, restaurantId) IN
       IF ~m.next THEN Refuse(m.status, m.message)
       ELSE /\ Reply(200, "", Rows(menuItems, Of(menuItems, restaurantId)))
            /\ UNCHANGED <<storageVars, sessions>>

GetCategoryMenuItems(s, categoryId) ==
    /\ Request("GET", "/api/categories/:categoryId/menu-items", s, categoryId, NoBody)
    /\ LET m == ChildChain(s, categories, categoryId, "Category not found") IN
       IF ~m.next THEN Refuse(m.status, m.message)
       ELSE /\ Reply(200, "", Rows(menuItems,
                     {i \in DOMAIN menuItems : menuItems[i].categoryId = categoryId}))
            /\ UNCHANGED <<storageVars, sessions>>

\* if (categoryId) { if (!category || category.restaurantId !== restaurantId) 400 }
CategoryMismatch(categoryId, restaurantId) ==
    \/ ~Exists(categories, categoryId)
    \/ categories[categoryId].restaurantId # restaurantId

PostMenuItem(s, restaurantId, body) ==
    /\ Request("POST", "/api/restaurants/:restaurantId/menu-items", s, restaurantId, body)
    /\ LET m == OwnerChain(s, restaurantId)
           categoryId == Field(body, "categoryId")
           menuItemData == Spread(body, [restaurantId |-> restaurantId])
           validatedData == Strip(menuItemData, MenuItemKeys)
           id == serial.menuItems
       IN
       IF ~m.next THEN Refuse(m.status, m.message)
       ELSE IF Truthy(categoryId) /\ CategoryMismatch(categoryId, restaurantId)
       THEN Refuse(400, "Category does not belong to this restaurant")
       ELSE IF ~ZodOk(menuItemData, MenuItemRequired) THEN Refuse(400, "Validation error")
       ELSE IF ~Exists(categories, validatedData.categoryId) \/ ~Exists(restaurants, restaurantId)
       THEN Refuse(500, "Internal server error")
       ELSE /\ menuItems' = Insert(menuItems, id, validatedData)
            /\ serial' = [serial EXCEPT !.menuItems = id + 1]
            /\ createActivityLog(LogRow(m.user.id, "create", "menuItem", id, restaurantId))
            /\ Reply(201, "", <<Spread(menuItems'[id], [id |-> id])>>)
            /\ UNCHANGED <<users, restaurants, categories, socialMediaLinks,
                           qrCodes, sessions>>

PutMenuItem(s, id, body) ==
    /\ Request("PUT", "/api/menu-items/:id", s, id, body)
    /\ LET m == ChildChain(s, menuItems, id, "Menu item not found")
           categoryId == Field(body, "categoryId")
           menuItemData == Delete(body, "restaurantId")
           validatedData == Strip(menuItemData, MenuItemKeys)
       IN
       IF ~m.next THEN Refuse(m.status, m.message)
       ELSE IF /\ Truthy(categoryId)
               /\ categoryId # menuItems[id].categoryId
               /\ CategoryMismatch(categoryId, menuItems[id].restaurantId)
       THEN Refuse(400, "Category does not belong to this restaurant")
       ELSE IF "categoryId" \in DOMAIN validatedData
               /\ ~Exists(categories, validatedData.categoryId)
       THEN Refuse(500, "Internal server error")
       ELSE /\ menuItems' = Update(menuItems, id, validatedData)
            /\ createActivityLog(LogRow(m.user.id, "update", "menuItem", id,
                                        menuItems[id].restaurantId))
            /\ Reply(200, "", <<Spread(menuItems'[id], [id |-> id])>>)
            /\ UNCHANGED <<users, restaurants, categories, socialMediaLinks,
                           qrCodes, serial, sessions>>

DeleteMenuItem(s, id) ==
    /\ Request("DELETE", "/api/menu-items/:id", s, id, NoBody)
    /\ LET m == ChildChain(s, menuItems, id, "Menu item not found") IN
       IF ~m.next THEN Refuse(m.status, m.message)
       ELSE /\ menuItems' = Remove(menuItems, id)
            /\ createActivityLog(LogRow(m.user.id, "delete", "menuItem", id,
                                        menuItems[id].restaurantId))
            /\ Reply(200, "Menu item deleted successfully", <<>>)
            /\ UNCHANGED <<users, restaurants, categories, socialMediaLinks,
                           qrCodes, serial, sessions>>

-----------------------------------------------------------------------------
(* Social media routes *)

GetSocialMediaLinks(s, restaurantId) ==
    /\ Request("GET", "/api/restaurants/:restaurantId/social-media", s, restaurantId, NoBody)
    /\ LET m == OwnerChain(s, restaurantId) IN
       IF ~m.next THEN Refuse(m.status, m.message)
       ELSE /\ Reply(200, "", Rows(socialMediaLinks, Of(socialMediaLinks, restaurantId)))
            /\ UNCHANGED <<storageVars, sessions>>

PostSocialMediaLink(s, restaurantId, body) ==
    /\ Request("POST", "/api/restaurants/:restaurantId/social-media", s, restaurantId, body)
    /\ LET m == OwnerChain(s, restaurantId)
           linkData == Spread(body, [restaurantId |-> restaurantId])
           validatedData == Strip(linkData, SocialMediaLinkKeys)
           id == serial.socialMediaLinks
       IN
       IF ~m.next THEN Refuse(m.status, m.message)
       ELSE IF ~ZodOk(linkData, SocialMediaLinkRequired) THEN Refuse(400, "Validation error")
       ELSE IF ~Exists(restaurants, restaurantId) THEN Refuse(500, "Internal server error")
       ELSE /\ socialMediaLinks' = Insert(socialMediaLinks, id, validatedData)
            /\ serial' = [serial EXCEPT !.socialMediaLinks = id + 1]
            /\ createActivityLog(LogRow(m.user.id, "create", "socialMediaLink", id,
                                        restaurantId))
            /\ Reply(201, "", <<Spread(socialMediaLinks'[id], [id |-> id])>>)
            /\ UNCHANGED <<users, restaurants, categories, menuItems, qrCodes, sessions>>

PutSocialMediaLink(s, id, body) ==
    /\ Request("PUT", "/api/social-media/:id", s, id, body)
    /\ LET m == ChildChain(s, socialMediaLinks, id, "Social media link not found")
           linkData == Delete(body, "restaurantId")
           validatedData == Strip(linkData, SocialMediaLinkKeys)
       IN
       IF ~m.next THEN Refuse(m.status, m.message)
       ELSE /\ socialMediaLinks' = Update(socialMediaLinks, id, validatedData)
            /\ createActivityLog(LogRow(m.user.id, "update", "socialMediaLink", id,
                                        socialMediaLinks[id].restaurantId))
            /\ Reply(200, "", <<Spread(socialMediaLinks'[id], [id |-> id])>>)
            /\ UNCHANGED <<users, restaurants, categories, menuItems, qrCodes,
                           serial, sessions>>

DeleteSocialMediaLink(s, id) ==
    /\ Request("DELETE", "/api/social-media/:id", s, id, NoBody)
    /\ LET m == ChildChain(s, socialMediaLinks, id, "Social media link not found") IN
       IF ~m.next THEN Refuse(m.status, m.message)
       ELSE /\ socialMediaLinks' = Remove(socialMediaLinks, id)
            /\ createActivityLog(LogRow(m.user.id, "delete", "socialMediaLink", id,
                                        socialMediaLinks[id].restaurantId))
            /\ Reply(200, "Social media link deleted successfully", <<>>)
            /\ UNCHANGED <<users, restaurants, categories, menuItems, qrCodes,
                           serial, sessions>>

-----------------------------------------------------------------------------
(* QR code routes *)

GetQRCodes(s, restaurantId) ==
    /\ Request("GET", "/api/restaurants/:restaurantId/qr-codes", s, restaurantId, NoBody)
    /\ LET m == OwnerChain(s, restaurantId) IN
       IF ~m.next THEN Refuse(m.status, m.message)
       ELSE /\ Reply(200, "", Rows(qrCodes, Of(qrCodes, restaurantId)))
            /\ UNCHANGED <<storageVars, sessions>>

PostQRCode(s, restaurantId, body) ==
    /\ Request("POST", "/api/restaurants/:restaurantId/qr-codes", s, restaurantId, body)
    /\ LET m == OwnerChain(s, restaurantId)
           qrCodeData == Spread(body, [restaurantId |-> restaurantId])
           validatedData == Strip(qrCodeData, QRCodeKeys)
           id == serial.qrCodes
       IN
       IF ~m.next THEN Refuse(m.status, m.message)
       ELSE IF ~ZodOk(qrCodeData, QRCodeRequired) THEN Refuse(400, "Validation error")
       ELSE IF ~Exists(restaurants, restaurantId) THEN Refuse(500, "Internal server error")
       ELSE /\ qrCodes' = Insert(qrCodes, id, validatedData)
            /\ serial' = [serial EXCEPT !.qrCodes = id + 1]
            /\ createActivityLog(LogRow(m.user.id, "create", "qrCode", id, restaurantId))
            /\ Reply(201, "", <<Spread(qrCodes'[id], [id |-> id])>>)
            /\ UNCHANGED <<users, restaurants, categories, menuItems,
                           socialMediaLinks, sessions>>

DeleteQRCode(s, id) ==
    /\ Request("DELETE", "/api/qr-codes/:id", s, id, NoBody)
    /\ LET m == ChildChain(s, qrCodes, id, "QR code not found") IN
       IF ~m.next THEN Refuse(m.status, m.message)
       ELSE /\ qrCodes' = Remove(qrCodes, id)
            /\ createActivityLog(LogRow(m.user.id, "delete", "qrCode", id,
                                        qrCodes[id].restaurantId))
            /\ Reply(200, "QR code deleted successfully", <<>>)
            /\ UNCHANGED <<users, restaurants, categories, menuItems,
                           socialMediaLinks, serial, sessions>>

-----------------------------------------------------------------------------
(* Activity log routes *)

\* the stored log rows, oldest first; a log row's id is its position
LoggedRows == [i \in 1..Len(activityLogs) |-> Spread(activityLogs[i], [id |-> i])]

\* orderBy(desc(activityLogs.createdAt)): newest first
NewestFirst(rows) == [i \in 1..Len(rows) |-> rows[Len(rows) + 1 - i]]

getActivityLogsByRestaurantId(restaurantId) ==
    NewestFirst(SelectSeq(LoggedRows, LAMBDA row : row.restaurantId = restaurantId))

getRecentActivityLogs(limit) ==
    LET all == NewestFirst(LoggedRows) IN
    SubSeq(all, 1, IF Len(all) < limit THEN Len(all) ELSE limit)

\* parseInt(req.query.limit) || 10
DefaultLimit == 10

GetActivity(s) ==
    /\ Request("GET", "/api/activity", s, Undefined, NoBody)
    /\ LET m == AdminChain(s) IN
       IF ~m.next THEN Refuse(m.status, m.message)
       ELSE /\ Reply(200, "", getRecentActivityLogs(DefaultLimit))
            /\ UNCHANGED <<storageVars, sessions>>

GetRestaurantActivity(s, restaurantId) ==
    /\ Request("GET", "/api/restaurants/:restaurantId/activity", s, restaurantId, NoBody)
    /\ LET m == OwnerChain(s, restaurantId) IN
       IF ~m.next THEN Refuse(m.status, m.message)
       ELSE /\ Reply(200, "", getActivityLogsByRestaurantId(restaurantId))
            /\ UNCHANGED <<storageVars, sessions>>

-----------------------------------------------------------------------------
(* Public menu route: no middleware *)

\* categories.map(category => ({...category, items: menuItems.filter(
\*     item => item.categoryId === category.id)}))
categorizedMenu(cats, restaurantId) ==
    LET items == Of(menuItems, restaurantId) IN
    [i \in 1..Len(cats) |->
        Spread(cats[i], [items |-> Rows(menuItems,
            {x \in items : menuItems[x].categoryId = cats[i].id})])]

publicMenu(cats, restaurantId) ==
    [restaurant |-> [id |-> restaurantId, name |-> restaurants[restaurantId].name],
     categories |-> categorizedMenu(cats, restaurantId),
     socialMediaLinks |-> Rows(socialMediaLinks, Of(socialMediaLinks, restaurantId))]

\* every restaurant that is not inactive is served
IsPublicUnlessInactive(restaurant) == restaurant.status # "inactive"
\* Only return active restaurants
IsPublic(restaurant) == restaurant.status = "active"

GetPublicMenu(s, restaurantId) ==
    /\ Request("GET", "/api/public/restaurants/:restaurantId/menu", s, restaurantId, NoBody)
    /\ IF ~Exists(restaurants, restaurantId) THEN Refuse(404, "Restaurant not found")
       ELSE IF ~IsPublic(restaurants[restaurantId])
       THEN Refuse(404, "Restaurant menu not available")
       ELSE /\ \E cats \in getCategoriesByRestaurantId(restaurantId) :
                   Reply(200, "", <<publicMenu(cats, restaurantId)>>)
            /\ UNCHANGED <<storageVars, sessions>>

-----------------------------------------------------------------------------
(* client/src/pages/public-menu.tsx: the page reads the menu document *)

\* const { restaurant, categories, socialLinks } = menuData: a field the
\* document does not carry is undefined, and
\* {socialLinks && socialLinks.length > 0 && ...} then renders no link
PublicMenuSocialLinks(menuData) ==
    IF "socialLinks" \in DOMAIN menuData THEN menuData.socialLinks ELSE <<>>

-----------------------------------------------------------------------------
(* The response leaves the server; the next request can be taken. *)

Deliver ==
    /\ lastReq # NoRequest
    /\ lastReq' = NoRequest
    /\ lastRes' = NoResponse
    /\ UNCHANGED <<storageVars, sessions, pending>>

-----------------------------------------------------------------------------
(* Initial state: the server has just started (no session, no request       *)
(* handled) on a database that holds a super admin, two restaurant admins  *)
(* and their restaurants, and an empty activity log.                       *)

SeedUsers ==
    (1 :> [username |-> "admin", password |-> "pw", role |-> "super_admin"]) @@
    (2 :> [username |-> "a", password |-> "pw", role |-> "restaurant_admin"]) @@
    (3 :> [username |-> "b", password |-> "pw", role |-> "restaurant_admin"])
\* the same database with a second super admin
SeedTwoSuperAdmins ==
    SeedUsers @@ (4 :> [username |-> "root", password |-> "pw", role |-> "super_admin"])
SeedRestaurants ==
    (1 :> [name |-> "falafel", adminId |-> 2, status |-> "active"]) @@
    (2 :> [name |-> "shawarma", adminId |-> 3, status |-> "setup"]) @@
    (3 :> [name |-> "hummus", adminId |-> 3, status |-> "inactive"])
SeedCategories ==
    (1 :> [name |-> "mains", displayOrder |-> 1, restaurantId |-> 1]) @@
    (2 :> [name |-> "drinks", displayOrder |-> 0, restaurantId |-> 2])
SeedMenuItems ==
    (1 :> [name |-> "pita", categoryId |-> 1, restaurantId |-> 1]) @@
    (2 :> [name |-> "cola", categoryId |-> 2, restaurantId |-> 2])
SeedSocialMediaLinks ==
    (1 :> [platform |-> "facebook", restaurantId |-> 1])
SeedQRCodes ==
    (1 :> [label |-> "door", restaurantId |-> 2])

NextSerial(table) == IF DOMAIN table = {} THEN 1 ELSE Max(DOMAIN table) + 1

InitWith(seedUsers) ==
    /\ users = seedUsers
    /\ restaurants = SeedRestaurants
    /\ categories = SeedCategories
    /\ menuItems = SeedMenuItems
    /\ socialMediaLinks = SeedSocialMediaLinks
    /\ qrCodes = SeedQRCodes
    /\ activityLogs = <<>>
    /\ serial = [users |-> NextSerial(seedUsers),
                 restaurants |-> NextSerial(SeedRestaurants),
                 categories |-> NextSerial(SeedCategories),
                 menuItems |-> NextSerial(SeedMenuItems),
                 socialMediaLinks |-> NextSerial(SeedSocialMediaLinks),
                 qrCodes |-> NextSerial(SeedQRCodes)]
    /\ sessions = {}
    /\ lastReq = NoRequest
    /\ lastRes = NoResponse
    /\ pending = NoPending

Init == InitWith(SeedUsers)
InitUsers == InitWith(SeedTwoSuperAdmins)

-----------------------------------------------------------------------------
(* Request inputs *)

Usernames == {users[u].username : u \in DOMAIN users} \cup {"nobody"}
Passwords == {"pw", "bad"}

UserIds == Ids(users, serial.users)
RestaurantIds == Ids(restaurants, serial.restaurants)
CategoryIds == Ids(categories, serial.categories)

UserPostBodies ==
    {[username |-> "c", password |-> "pw"],
     [username |-> "c", password |-> "pw", role |-> "super_admin"],
     [username |-> "a", password |-> "pw"],
     [password |-> "pw"]}
UserPutBodies ==
    {[role |-> r] : r \in Roles} \cup {[username |-> "a"]}
RestaurantPostBodies ==
    {[name |-> "new"], [status |-> "active"]}
       \cup {[name |-> "new", adminId |-> u] : u \in UserIds}
       \cup {[adminId |-> u] : u \in UserIds}
RestaurantPutBodies ==
    {[name |-> "renamed"]}
       \cup {[adminId |-> u] : u \in UserIds}
       \cup {[status |-> s] : s \in {"active", "inactive"}}
CategoryPostBodies ==
    {[name |-> "new", displayOrder |-> 1], [name |-> "new", displayOrder |-> NULL],
     [name |-> "", displayOrder |-> 0], [displayOrder |-> 1]}
       \cup {[name |-> "new", restaurantId |-> r] : r \in DOMAIN restaurants}
CategoryPutBodies ==
    {[name |-> "renamed"], [displayOrder |-> 1], [displayOrder |-> NULL]}
       \cup {[restaurantId |-> r] : r \in DOMAIN restaurants}
MenuItemPostBodies ==
    {[name |-> "new"]}
       \cup {[name |-> "new", categoryId |-> k] : k \in CategoryIds \cup {0}}
       \cup {[name |-> "", discountPrice |-> 0, featured |-> FALSE, categoryId |-> k] :
                  k \in DOMAIN categories}
MenuItemPutBodies ==
    {[name |-> "renamed"]}
       \cup {[categoryId |-> k] : k \in CategoryIds \cup {0}}
       \cup {[restaurantId |-> r] : r \in DOMAIN restaurants}
SocialMediaLinkPostBodies == {[platform |-> "instagram"], NoBody}
SocialMediaLinkPutBodies ==
    {[platform |-> "instagram"]} \cup {[restaurantId |-> r] : r \in DOMAIN restaurants}
QRCodePostBodies == {[label |-> "table"], NoBody}

-----------------------------------------------------------------------------
(* Next-state relation *)

\* whoever sends the request: a logged-in session or none
Callers == sessions \cup {Undefined}

Next ==
    \/ \E s \in Callers, u \in Usernames, p \in Passwords : Login(s, u, p)
    \/ \E s \in Callers : Logout(s)
    \/ \E s \in Callers : GetMe(s)
    \/ \E s \in Callers : GetUsers(s)
    \/ \E s \in Callers, id \in UserIds : GetUser(s, id)
    \/ \E s \in Callers, body \in UserPostBodies : PostUser(s, body)
    \/ \E s \in Callers, id \in UserIds, body \in UserPutBodies : PutUser(s, id, body)
    \/ \E s \in Callers, id \in UserIds : DeleteUser(s, id)
    \/ \E s \in Callers : GetRestaurants(s)
    \/ \E s \in Callers, id \in RestaurantIds : GetRestaurant(s, id)
    \/ \E s \in Callers, body \in RestaurantPostBodies : PostRestaurant(s, body)
    \/ \E s \in Callers, id \in RestaurantIds, body \in RestaurantPutBodies :
          PutRestaurant(s, id, body)
    \/ \E s \in Callers, id \in RestaurantIds : DeleteRestaurant(s, id)
    \/ \E s \in Callers, r \in RestaurantIds : GetCategories(s, r)
    \/ \E s \in Callers, r \in RestaurantIds, body \in CategoryPostBodies : PostCategory(s, r, body)
    \/ \E s \in Callers, id \in CategoryIds, body \in CategoryPutBodies : PutCategory(s, id, body)
    \/ \E s \in Callers, id \in CategoryIds : DeleteCategory(s, id)
    \/ \E s \in Callers, r \in RestaurantIds : GetMenuItems(s, r)
    \/ \E s \in Callers, id \in CategoryIds : GetCategoryMenuItems(s, id)
    \/ \E s \in Callers, r \in RestaurantIds, body \in MenuItemPostBodies : PostMenuItem(s, r, body)
    \/ \E s \in Callers, id \in Ids(menuItems, serial.menuItems), body \in MenuItemPutBodies :
          PutMenuItem(s, id, body)
    \/ \E s \in Callers, id \in Ids(menuItems, serial.menuItems) : DeleteMenuItem(s, id)
    \/ \E s \in Callers, r \in RestaurantIds : GetSocialMediaLinks(s, r)
    \/ \E s \in Callers, r \in RestaurantIds, body \in SocialMediaLinkPostBodies :
          PostSocialMediaLink(s, r, body)
    \/ \E s \in Callers, id \in Ids(socialMediaLinks, serial.socialMediaLinks), body \in SocialMediaLinkPutBodies :
          PutSocialMediaLink(s, id, body)
    \/ \E s \in Callers, id \in Ids(socialMediaLinks, serial.socialMediaLinks) :
          DeleteSocialMediaLink(s, id)
    \/ \E s \in Callers, r \in RestaurantIds : GetQRCodes(s, r)
    \/ \E s \in Callers, r \in RestaurantIds, body \in QRCodePostBodies : PostQRCode(s, r, body)
    \/ \E s \in Callers, id \in Ids(qrCodes, serial.qrCodes) : DeleteQRCode(s, id)
    \/ \E s \in Callers : GetActivity(s)
    \/ \E s \in Callers, r \in RestaurantIds : GetRestaurantActivity(s, r)
    \/ \E s \in Callers, r \in RestaurantIds : GetPublicMenu(s, r)
    \/ Deliver

Spec == Init /\ [][Next]_vars

\* The user-management routes on the database with two super admins.
NextUsers ==
    \/ \E s \in Callers, u \in Usernames, p \in Passwords : Login(s, u, p)
    \/ \E s \in Callers : Logout(s)
    \/ \E s \in Callers : GetUsers(s)
    \/ \E s \in Callers, id \in UserIds : GetUser(s, id)
    \/ \E s \in Callers, body \in UserPostBodies : PostUser(s, body)
    \/ \E s \in Callers, id \in UserIds, body \in UserPutBodies : PutUser(s, id, body)
    \/ \E s \in Callers, id \in UserIds : DeleteUser(s, id)
    \/ Deliver

SpecUsers == InitUsers /\ [][NextUsers]_vars

\* The server some time after its start: the three seeded users have logged
\* in (their sessions are open, the log holds their login rows) and nothing
\* else has happened yet.
LoginRowOf(id) ==
    [userId |-> id, action |-> "login", entityType |-> "user", entityId |-> id,
     restaurantId |-> NULL, createdAt |-> 0]

InitOwners ==
    /\ users = SeedUsers
    /\ restaurants = SeedRestaurants
    /\ categories = SeedCategories
    /\ menuItems = SeedMenuItems
    /\ socialMediaLinks = SeedSocialMediaLinks
    /\ qrCodes = SeedQRCodes
    /\ activityLogs = <<LoginRowOf(1), LoginRowOf(2), LoginRowOf(3)>>
    /\ serial = [users |-> NextSerial(SeedUsers),
                 restaurants |-> NextSerial(SeedRestaurants),
                 categories |-> NextSerial(SeedCategories),
                 menuItems |-> NextSerial(SeedMenuItems),
                 socialMediaLinks |-> NextSerial(SeedSocialMediaLinks),
                 qrCodes |-> NextSerial(SeedQRCodes)]
    /\ sessions = {1, 2, 3}
    /\ lastReq = NoRequest
    /\ lastRes = NoResponse
    /\ pending = NoPending

\* a new name, or a new admin among the stored users
ReassignBodies == {[name |-> "renamed"]} \cup {[adminId |-> u] : u \in DOMAIN users}

\* The routes scoped to a restaurant: the restaurant itself and its children.
NextOwners ==
    \/ \E s \in Callers, id \in RestaurantIds : GetRestaurant(s, id)
    \/ \E s \in Callers, id \in RestaurantIds, body \in ReassignBodies :
          PutRestaurant(s, id, body)
    \/ \E s \in Callers, id \in RestaurantIds : DeleteRestaurant(s, id)
    \/ \E s \in Callers, r \in RestaurantIds : GetCategories(s, r)
    \/ \E s \in Callers, id \in CategoryIds : PutCategory(s, id, [name |-> "renamed"])
    \/ \E s \in Callers, id \in CategoryIds : DeleteCategory(s, id)
    \/ \E s \in Callers, r \in RestaurantIds : GetMenuItems(s, r)
    \/ \E s \in Callers, id \in CategoryIds : GetCategoryMenuItems(s, id)
    \/ \E s \in Callers, id \in Ids(menuItems, serial.menuItems) :
          PutMenuItem(s, id, [name |-> "renamed"])
    \/ \E s \in Callers, id \in Ids(menuItems, serial.menuItems) : DeleteMenuItem(s, id)
    \/ \E s \in Callers, r \in RestaurantIds : GetSocialMediaLinks(s, r)
    \/ \E s \in Callers, id \in Ids(socialMediaLinks, serial.socialMediaLinks) :
          PutSocialMediaLink(s, id, [platform |-> "instagram"])
    \/ \E s \in Callers, id \in Ids(socialMediaLinks, serial.socialMediaLinks) :
          DeleteSocialMediaLink(s, id)
    \/ \E s \in Callers, r \in RestaurantIds : GetQRCodes(s, r)
    \/ \E s \in Callers, id \in Ids(qrCodes, serial.qrCodes) : DeleteQRCode(s, id)
    \/ \E s \in Callers, r \in RestaurantIds : GetRestaurantActivity(s, r)
    \/ Deliver

SpecOwners == InitOwners /\ [][NextOwners]_vars

-----------------------------------------------------------------------------
(* Concurrent requests.  A handler awaits every storage call, and the       *)
(* handlers of other requests run while it waits: here a step is one        *)
(* storage call together with the code that follows it up to the next one.  *)
(* A handler that answers puts its request and response in lastReq/lastRes. *)

InFlight(pc, req, user, row) == [pc |-> pc, req |-> req, user |-> user, row |-> row]

At(p, pc, method, route) ==
    /\ pending[p].pc = pc
    /\ pending[p].req.method = method
    /\ pending[p].req.route = route

Goto(p, pc, row) ==
    /\ pending' = [pending EXCEPT ![p] = InFlight(pc, pending[p].req, pending[p].user, row)]
    /\ UNCHANGED <<lastReq, lastRes>>

\* res.status(status).json(...) of the handler running in p
AnswerWith(p, status, message, data) ==
    /\ lastReq = NoRequest
    /\ lastReq' = pending[p].req
    /\ Reply(status, message, data)
    /\ pending' = [pending EXCEPT ![p] = Idle]

Answer(p, status, message) == AnswerWith(p, status, message, <<>>)

\* the middleware of a route: authMiddleware awaits storage.getUser, the
\* role check that may follow it awaits nothing
Begin(p, method, route, s, id, body) ==
    /\ pending[p] = Idle
    /\ LET req == [method |-> method, route |-> route, session |-> s,
                   id |-> id, body |-> body]
           m == IF route = "/api/users/:id" THEN AdminChain(s) ELSE authMiddleware(s)
       IN
       IF ~m.next
       THEN /\ lastReq = NoRequest
            /\ lastReq' = req
            /\ Refuse(m.status, m.message)
            /\ UNCHANGED pending
       ELSE /\ pending' = [pending EXCEPT ![p] = InFlight("handler", req, m.user, NoBody)]
            /\ UNCHANGED <<storageVars, sessions, lastReq, lastRes>>

\* DELETE /api/users/:id ---------------------------------------------------

DeleteUserBegin(p, s, id) == Begin(p, "DELETE", "/api/users/:id", s, id, NoBody)

\* const user = await storage.getUser(id)
DeleteUserGetUser(p) ==
    /\ At(p, "handler", "DELETE", "/api/users/:id")
    /\ LET id == pending[p].req.id IN
       IF ~Exists(users, id) THEN Answer(p, 404, "User not found")
       ELSE Goto(p, IF users[id].role = "super_admin" THEN "getAllUsers" ELSE "deleteUser",
                 users[id])
    /\ UNCHANGED <<storageVars, sessions>>

\* const allUsers = await storage.getAllUsers()
DeleteUserGetAllUsers(p) ==
    /\ At(p, "getAllUsers", "DELETE", "/api/users/:id")
    /\ IF Cardinality(SuperAdmins) <= 1
       THEN Answer(p, 400, "Cannot delete the only super admin")
       ELSE Goto(p, "deleteUser", pending[p].row)
    /\ UNCHANGED <<storageVars, sessions>>

\* the same step on a database without foreign keys to users.id
DeleteUserDeleteUserUnreferenced(p) ==
    /\ At(p, "deleteUser", "DELETE", "/api/users/:id")
    /\ users' = Remove(users, pending[p].req.id)
    /\ Goto(p, "createActivityLog", pending[p].row)
    /\ UNCHANGED <<restaurants, categories, menuItems, socialMediaLinks,
                   qrCodes, activityLogs, serial, sessions>>

\* const deleted = await storage.deleteUser(id): a delete that matches no
\* row is no error
DeleteUserDeleteUser(p) ==
    /\ At(p, "deleteUser", "DELETE", "/api/users/:id")
    /\ LET id == pending[p].req.id IN
       IF Exists(users, id) /\ UserReferenced(id)
       THEN /\ Answer(p, 500, "Internal server error")
            /\ UNCHANGED <<storageVars, sessions>>
       ELSE /\ users' = Remove(users, id)
            /\ Goto(p, "createActivityLog", pending[p].row)
            /\ UNCHANGED <<restaurants, categories, menuItems, socialMediaLinks,
                           qrCodes, activityLogs, serial, sessions>>

\* await storage.createActivityLog(...): activity_logs.user_id references the
\* caller's row
DeleteUserCreateActivityLog(p) ==
    /\ At(p, "createActivityLog", "DELETE", "/api/users/:id")
    /\ IF ~Exists(users, pending[p].user.id)
       THEN /\ Answer(p, 500, "Internal server error")
            /\ UNCHANGED <<storageVars, sessions>>
       ELSE /\ createActivityLog(LogRow(pending[p].user.id, "delete", "user",
                                        pending[p].req.id, NULL))
            /\ Answer(p, 200, "User deleted successfully")
            /\ UNCHANGED <<tables, serial, sessions>>

\* POST /api/auth/login ----------------------------------------------------

\* const user = await storage.getUserByUsername(username);
\* req.session.userId = user.id
LoginGetUserByUsername(p, username, password) ==
    /\ pending[p] = Idle
    /\ LET req == [method |-> "POST", route |-> "/api/auth/login", session |-> Undefined,
                   id |-> Undefined,
                   body |-> [username |-> username, password |-> password]]
           id == UserByUsername(username)
       IN
       IF username = "" \/ password = ""
       THEN /\ lastReq = NoRequest
            /\ lastReq' = req
            /\ Refuse(400, "Username and password are required")
            /\ UNCHANGED pending
       ELSE IF id = Undefined \/ users[id].password # password
       THEN /\ lastReq = NoRequest
            /\ lastReq' = req
            /\ Refuse(401, "Invalid credentials")
            /\ UNCHANGED pending
       ELSE /\ pending' = [pending EXCEPT ![p] =
                              InFlight("createActivityLog", req, [id |-> id, role |-> users[id].role],
                                       users[id])]
            /\ UNCHANGED <<storageVars, sessions, lastReq, lastRes>>

\* await storage.createActivityLog(...); the session, which already holds
\* userId, is saved when the response ends, whatever its status
LoginCreateActivityLog(p) ==
    /\ At(p, "createActivityLog", "POST", "/api/auth/login")
    /\ sessions' = sessions \cup {pending[p].user.id}
    /\ IF ~Exists(users, pending[p].user.id)
       THEN /\ Answer(p, 500, "Internal server error")
            /\ UNCHANGED storageVars
       ELSE /\ createActivityLog(LogRow(pending[p].user.id, "login", "user",
                                        pending[p].user.id, NULL))
            /\ AnswerWith(p, 200, "",
                          <<Spread(Delete(pending[p].row, "password"),
                                   [id |-> pending[p].user.id])>>)
            /\ UNCHANGED <<tables, serial>>

\* PUT and DELETE of a category, menu item, social link or QR code ----------

ChildRoutes ==
    {"/api/categories/:id", "/api/menu-items/:id", "/api/social-media/:id",
     "/api/qr-codes/:id"}

ChildTable(route) ==
    IF route = "/api/categories/:id" THEN categories
    ELSE IF route = "/api/menu-items/:id" THEN menuItems
    ELSE IF route = "/api/social-media/:id" THEN socialMediaLinks
    ELSE qrCodes

ChildKeys(route) ==
    IF route = "/api/categories/:id" THEN CategoryKeys
    ELSE IF route = "/api/menu-items/:id" THEN MenuItemKeys
    ELSE IF route = "/api/social-media/:id" THEN SocialMediaLinkKeys
    ELSE QRCodeKeys

ChildType(route) ==
    IF route = "/api/categories/:id" THEN "category"
    ELSE IF route = "/api/menu-items/:id" THEN "menuItem"
    ELSE IF route = "/api/social-media/:id" THEN "socialMediaLink"
    ELSE "qrCode"

ChildNotFound(route) ==
    IF route = "/api/categories/:id" THEN "Category not found"
    ELSE IF route = "/api/menu-items/:id" THEN "Menu item not found"
    ELSE IF route = "/api/social-media/:id" THEN "Social media link not found"
    ELSE "QR code not found"

ChildDeleted(route) ==
    IF route = "/api/categories/:id" THEN "Category deleted successfully"
    ELSE IF route = "/api/menu-items/:id" THEN "Menu item deleted successfully"
    ELSE IF route = "/api/social-media/:id" THEN "Social media link deleted successfully"
    ELSE "QR code deleted successfully"

\* the table of the route becomes `rows`, the other tables stay
SetChildTable(route, rows) ==
    /\ categories' = IF route = "/api/categories/:id" THEN rows ELSE categories
    /\ menuItems' = IF route = "/api/menu-items/:id" THEN rows ELSE menuItems
    /\ socialMediaLinks' = IF route = "/api/social-media/:id" THEN rows ELSE socialMediaLinks
    /\ qrCodes' = IF route = "/api/qr-codes/:id" THEN rows ELSE qrCodes

\* there is no PUT /api/qr-codes/:id; a payload without categoryId makes the
\* menu item handler await no category
ChildBegin(p, method, route, s, id, body) ==
    /\ route \in ChildRoutes
    /\ method \in {"PUT", "DELETE"}
    /\ ~(method = "PUT" /\ route = "/api/qr-codes/:id")
    /\ "categoryId" \notin DOMAIN body
    /\ Len(WrittenSinceStart) < MaxLog
    /\ Begin(p, method, route, s, id, body)

\* const x = await storage.getX(id)
ChildGet(p) ==
    /\ pending[p].pc = "handler"
    /\ pending[p].req.route \in ChildRoutes
    /\ LET id == pending[p].req.id
           table == ChildTable(pending[p].req.route)
       IN
       IF ~Exists(table, id) THEN Answer(p, 404, ChildNotFound(pending[p].req.route))
       ELSE Goto(p, "getRestaurant", table[id])
    /\ UNCHANGED <<storageVars, sessions>>

\* const restaurant = await storage.getRestaurant(x.restaurantId), then the
\* access check on what was read
ChildGetRestaurant(p) ==
    /\ pending[p].pc = "getRestaurant"
    /\ pending[p].req.route \in ChildRoutes
    /\ LET r == pending[p].row.restaurantId IN
       IF ~Exists(restaurants, r) THEN Answer(p, 404, "Restaurant not found")
       ELSE IF ~HasAccess(pending[p].user, r)
       THEN Answer(p, 403, "Forbidden: You don't have access to this restaurant")
       ELSE Goto(p, "write", pending[p].row)
    /\ UNCHANGED <<storageVars, sessions>>

\* await storage.updateX(id, validatedData) / await storage.deleteX(id): an
\* update that matches no row returns undefined, a delete that matches no
\* row returns !!result, which is true
ChildWrite(p) ==
    /\ pending[p].pc = "write"
    /\ pending[p].req.route \in ChildRoutes
    /\ LET req == pending[p].req
           table == ChildTable(req.route)
           validatedData == Strip(Delete(req.body, "restaurantId"), ChildKeys(req.route))
       IN
       IF req.method = "PUT" /\ ~Exists(table, req.id)
       THEN /\ Answer(p, 404, ChildNotFound(req.route))
            /\ UNCHANGED <<storageVars, sessions>>
       ELSE IF req.method = "DELETE" /\ req.route = "/api/categories/:id"
               /\ Exists(table, req.id) /\ CategoryReferenced(req.id)
       THEN /\ Answer(p, 500, "Internal server error")
            /\ UNCHANGED <<storageVars, sessions>>
       ELSE /\ SetChildTable(req.route,
                             IF req.method = "PUT" THEN Update(table, req.id, validatedData)
                             ELSE Remove(table, req.id))
            /\ Goto(p, "createActivityLog",
                    IF req.method = "PUT" THEN Spread(table[req.id], validatedData)
                    ELSE pending[p].row)
            /\ UNCHANGED <<users, restaurants, activityLogs, serial, sessions>>

\* await storage.createActivityLog(...): the row references the caller and
\* the restaurant the child was read with
ChildCreateActivityLog(p) ==
    /\ pending[p].pc = "createActivityLog"
    /\ pending[p].req.route \in ChildRoutes
    /\ LET req == pending[p].req IN
       IF ~Exists(users, pending[p].user.id) \/ ~Exists(restaurants, pending[p].row.restaurantId)
       THEN /\ Answer(p, 500, "Internal server error")
            /\ UNCHANGED <<storageVars, sessions>>
       ELSE /\ createActivityLog(LogRow(pending[p].user.id,
                                        IF req.method = "PUT" THEN "update" ELSE "delete",
                                        ChildType(req.route), req.id,
                                        pending[p].row.restaurantId))
            /\ IF req.method = "PUT"
               THEN AnswerWith(p, 200, "", <<Spread(pending[p].row, [id |-> req.id])>>)
               ELSE Answer(p, 200, ChildDeleted(req.route))
            /\ UNCHANGED <<tables, serial, sessions>>

\* The concurrent runs start some time after the server has: the listed
\* users have logged in, their sessions are open and the log holds their
\* login rows.
InitLoggedIn(seedUsers, loggedIn) ==
    /\ users = seedUsers
    /\ restaurants = SeedRestaurants
    /\ categories = SeedCategories
    /\ menuItems = SeedMenuItems
    /\ socialMediaLinks = SeedSocialMediaLinks
    /\ qrCodes = SeedQRCodes
    /\ activityLogs = [i \in 1..Cardinality(loggedIn) |-> LoginRowOf(AscIds(loggedIn)[i])]
    /\ serial = [users |-> NextSerial(seedUsers),
                 restaurants |-> NextSerial(SeedRestaurants),
                 categories |-> NextSerial(SeedCategories),
                 menuItems |-> NextSerial(SeedMenuItems),
                 socialMediaLinks |-> NextSerial(SeedSocialMediaLinks),
                 qrCodes |-> NextSerial(SeedQRCodes)]
    /\ sessions = loggedIn
    /\ lastReq = NoRequest
    /\ lastRes = NoResponse
    /\ pending = NoPending

\* Concurrent logins and user deletions on the database with two super
\* admins; the super admin `admin` has logged in.  A session whose user is
\* no longer stored sends requests to every route behind authMiddleware.
InitUserRace == InitLoggedIn(SeedTwoSuperAdmins, {1})

\* sessions of users that are no longer stored
Orphans == sessions \ DOMAIN users

NextUserRace ==
    \/ \E p \in Procs, u \in Usernames, pw \in Passwords : LoginGetUserByUsername(p, u, pw)
    \/ \E p \in Procs : LoginCreateActivityLog(p)
    \/ \E p \in Procs, s \in Callers, id \in UserIds : DeleteUserBegin(p, s, id)
    \/ \E p \in Procs : DeleteUserGetUser(p)
    \/ \E p \in Procs : DeleteUserGetAllUsers(p)
    \/ \E p \in Procs : DeleteUserDeleteUser(p)
    \/ \E p \in Procs : DeleteUserCreateActivityLog(p)
    \/ \E s \in Orphans : GetMe(s)
    \/ \E s \in Orphans : GetUsers(s)
    \/ \E s \in Orphans, id \in UserIds : GetUser(s, id)
    \/ \E s \in Orphans, body \in UserPostBodies : PostUser(s, body)
    \/ \E s \in Orphans, id \in UserIds, body \in UserPutBodies : PutUser(s, id, body)
    \/ \E s \in Orphans, id \in UserIds : DeleteUser(s, id)
    \/ \E s \in Orphans : GetRestaurants(s)
    \/ \E s \in Orphans, id \in RestaurantIds : GetRestaurant(s, id)
    \/ \E s \in Orphans, body \in RestaurantPostBodies : PostRestaurant(s, body)
    \/ \E s \in Orphans, id \in RestaurantIds, body \in RestaurantPutBodies :
          PutRestaurant(s, id, body)
    \/ \E s \in Orphans, id \in RestaurantIds : DeleteRestaurant(s, id)
    \/ \E s \in Orphans, r \in RestaurantIds : GetCategories(s, r)
    \/ \E s \in Orphans, r \in RestaurantIds, body \in CategoryPostBodies : PostCategory(s, r, body)
    \/ \E s \in Orphans, id \in CategoryIds, body \in CategoryPutBodies : PutCategory(s, id, body)
    \/ \E s \in Orphans, id \in CategoryIds : DeleteCategory(s, id)
    \/ \E s \in Orphans, r \in RestaurantIds : GetMenuItems(s, r)
    \/ \E s \in Orphans, id \in CategoryIds : GetCategoryMenuItems(s, id)
    \/ \E s \in Orphans, r \in RestaurantIds, body \in MenuItemPostBodies : PostMenuItem(s, r, body)
    \/ \E s \in Orphans, id \in Ids(menuItems, serial.menuItems), body \in MenuItemPutBodies :
          PutMenuItem(s, id, body)
    \/ \E s \in Orphans, id \in Ids(menuItems, serial.menuItems) : DeleteMenuItem(s, id)
    \/ \E s \in Orphans, r \in RestaurantIds : GetSocialMediaLinks(s, r)
    \/ \E s \in Orphans, r \in RestaurantIds, body \in SocialMediaLinkPostBodies :
          PostSocialMediaLink(s, r, body)
    \/ \E s \in Orphans, id \in Ids(socialMediaLinks, serial.socialMediaLinks), body \in SocialMediaLinkPutBodies :
          PutSocialMediaLink(s, id, body)
    \/ \E s \in Orphans, id \in Ids(socialMediaLinks, serial.socialMediaLinks) :
          DeleteSocialMediaLink(s, id)
    \/ \E s \in Orphans, r \in RestaurantIds : GetQRCodes(s, r)
    \/ \E s \in Orphans, r \in RestaurantIds, body \in QRCodePostBodies : PostQRCode(s, r, body)
    \/ \E s \in Orphans, id \in Ids(qrCodes, serial.qrCodes) : DeleteQRCode(s, id)
    \/ \E s \in Orphans : GetActivity(s)
    \/ \E s \in Orphans, r \in RestaurantIds : GetRestaurantActivity(s, r)
    \/ Deliver

SpecUserRace == InitUserRace /\ [][NextUserRace]_vars

\* Concurrent writes to the children of a restaurant while a super admin
\* gives restaurants another admin or deletes them; `admin` and `a` have
\* logged in.
InitChildRace == InitLoggedIn(SeedUsers, {1, 2})

ChildBodies(method, route) ==
    IF method = "DELETE" THEN {NoBody}
    ELSE IF route = "/api/social-media/:id" THEN {[platform |-> "instagram"]}
    ELSE {[name |-> "renamed"]}

NextChildRace ==
    \/ \E p \in {"p"}, method \in {"PUT", "DELETE"}, route \in ChildRoutes, s \in sessions :
          \E id \in Ids(ChildTable(route), 0), body \in ChildBodies(method, route) :
             ChildBegin(p, method, route, s, id, body)
    \/ \E p \in {"p"} : ChildGet(p)
    \/ \E p \in {"p"} : ChildGetRestaurant(p)
    \/ \E p \in {"p"} : ChildWrite(p)
    \/ \E p \in {"p"} : ChildCreateActivityLog(p)
    \/ \E s \in sessions, id \in DOMAIN restaurants, u \in DOMAIN users \ SuperAdmins :
          PutRestaurant(s, id, [adminId |-> u])
    \/ \E s \in sessions, id \in DOMAIN restaurants : DeleteRestaurant(s, id)
    \/ Deliver

SpecChildRace == InitChildRace /\ [][NextChildRace]_vars

-----------------------------------------------------------------------------
(* Vocabulary of the properties.  In an action formula the unprimed tables  *)
(* are the storage the request found and lastReq', lastRes' are the request *)
(* handled by the step and its response.                                    *)

\* the step handles a request
Handled == lastReq = NoRequest /\ lastReq'.method # ""

PublicRoutes ==
    {"/api/auth/login", "/api/auth/logout", "/api/public/restaurants/:restaurantId/menu"}
ByRestaurantIdRoutes ==
    {"/api/restaurants/:id",
     "/api/restaurants/:restaurantId/categories",
     "/api/restaurants/:restaurantId/menu-items",
     "/api/restaurants/:restaurantId/social-media",
     "/api/restaurants/:restaurantId/qr-codes",
     "/api/restaurants/:restaurantId/activity"}

\* the session's user is stored with that role
HasRole(s, role) == s \in DOMAIN users /\ users[s].role = role

\* the stored restaurant a request addresses, directly or through a child id;
\* Undefined when the request addresses none
RestaurantOf(table, id) ==
    IF id \in DOMAIN table /\ table[id].restaurantId \in DOMAIN restaurants
    THEN table[id].restaurantId ELSE Undefined
Target(req) ==
    IF req.route \in ByRestaurantIdRoutes
    THEN (IF req.id \in DOMAIN restaurants THEN req.id ELSE Undefined)
    ELSE IF req.route \in {"/api/categories/:id", "/api/categories/:categoryId/menu-items"}
    THEN RestaurantOf(categories, req.id)
    ELSE IF req.route = "/api/menu-items/:id" THEN RestaurantOf(menuItems, req.id)
    ELSE IF req.route = "/api/social-media/:id" THEN RestaurantOf(socialMediaLinks, req.id)
    ELSE IF req.route = "/api/qr-codes/:id" THEN RestaurantOf(qrCodes, req.id)
    ELSE Undefined

\* restaurant r and its children are stored after the step exactly as before
Untouched(r) ==
    /\ r \in DOMAIN restaurants' /\ restaurants'[r] = restaurants[r]
    /\ Of(categories', r) = Of(categories, r)
    /\ \A x \in Of(categories, r) : categories'[x] = categories[x]
    /\ Of(menuItems', r) = Of(menuItems, r)
    /\ \A x \in Of(menuItems, r) : menuItems'[x] = menuItems[x]
    /\ Of(socialMediaLinks', r) = Of(socialMediaLinks, r)
    /\ \A x \in Of(socialMediaLinks, r) : socialMediaLinks'[x] = socialMediaLinks[x]
    /\ Of(qrCodes', r) = Of(qrCodes, r)
    /\ \A x \in Of(qrCodes, r) : qrCodes'[x] = qrCodes[x]

-----------------------------------------------------------------------------
(* C1 *)

\* the request is a GET, PUT or DELETE of a restaurant_admin on a stored
\* restaurant, or a child of one, whose adminId is not the caller's id
OnForeignRestaurant(req) ==
    /\ HasRole(req.session, "restaurant_admin")
    /\ req.method \in {"GET", "PUT", "DELETE"}
    /\ Target(req) # Undefined
    /\ restaurants[Target(req)].adminId # req.session

\* C1: every GET, PUT or DELETE that a restaurant_admin issues on a
\* restaurant it does not own, or on a category, menu item, social link, QR
\* code or activity list of such a restaurant, is answered 403 or 404 and
\* returns no data.
C1_ForeignAccessRefused ==
    [][(Handled /\ OnForeignRestaurant(lastReq'))
          => (lastRes'.status \in {403, 404} /\ lastRes'.data = <<>>)]_vars

-----------------------------------------------------------------------------
(* C2 *)

\* C2: a request of a restaurant_admin leaves every restaurant whose adminId
\* is not the caller's id, and the categories, menu items, social links and
\* QR codes of that restaurant, stored exactly as they were.
C2_ForeignStateUnchanged ==
    [][(Handled /\ HasRole(lastReq'.session, "restaurant_admin"))
          => \A r \in DOMAIN restaurants :
                restaurants[r].adminId # lastReq'.session => Untouched(r)]_vars

-----------------------------------------------------------------------------
(* C3 *)

\* C3: a request that carries no authenticated session, to any route other
\* than login, logout and the public menu, is answered 401 and leaves every
\* table and the activity log as they were, whatever it addresses.
C3_UnauthenticatedRefused ==
    [][(Handled /\ lastReq'.route \notin PublicRoutes
               /\ lastReq'.session \notin DOMAIN users)
          => (lastRes'.status = 401 /\ lastRes'.data = <<>>
                /\ UNCHANGED <<tables, activityLogs>>)]_vars

\* an unauthenticated DELETE of a stored restaurant that a super admin could
\* delete was answered 401, and the restaurant is still stored
C3_Witness ==
    /\ lastReq.session = Undefined
    /\ lastReq.method = "DELETE" /\ lastReq.route = "/api/restaurants/:id"
    /\ lastReq.id \in DOMAIN restaurants /\ ~RestaurantReferenced(lastReq.id)
    /\ lastRes.status = 401

-----------------------------------------------------------------------------
(* C4 *)

\* C4: an authenticated request of either role on restaurants/{id} or under
\* restaurants/{restaurantId}/... that names no stored restaurant is answered
\* 404, returns nothing and stores nothing.
C4_MissingRestaurantNotFound ==
    [][(Handled /\ lastReq'.session \in DOMAIN users
               /\ lastReq'.route \in ByRestaurantIdRoutes
               /\ lastReq'.id \notin DOMAIN restaurants)
          => (lastRes'.status = 404 /\ lastRes'.data = <<>>
                /\ UNCHANGED <<tables, activityLogs>>)]_vars

-----------------------------------------------------------------------------
(* C5 *)

\* C5: when a caller whose role is not super_admin creates a restaurant, the
\* stored restaurant's adminId, and the one returned, is the caller's id,
\* whether the payload carried no adminId or the id of any user.
C5_CreatorBecomesAdmin ==
    [][(Handled /\ lastReq'.method = "POST" /\ lastReq'.route = "/api/restaurants"
               /\ lastRes'.status = 201
               /\ ~HasRole(lastReq'.session, "super_admin"))
          => (/\ serial.restaurants \in DOMAIN restaurants'
              /\ restaurants'[serial.restaurants].adminId = lastReq'.session
              /\ lastRes'.data[1].id = serial.restaurants
              /\ lastRes'.data[1].adminId = lastReq'.session)]_vars

\* a restaurant_admin created a restaurant with a payload naming another
\* stored user as adminId, and the stored restaurant is the caller's
C5_Witness ==
    /\ lastReq.method = "POST" /\ lastReq.route = "/api/restaurants"
    /\ lastRes.status = 201
    /\ HasRole(lastReq.session, "restaurant_admin")
    /\ "adminId" \in DOMAIN lastReq.body
    /\ lastReq.body.adminId \in DOMAIN users
    /\ lastReq.body.adminId # lastReq.session
    /\ restaurants[lastRes.data[1].id].adminId = lastReq.session

-----------------------------------------------------------------------------
(* C6 *)

\* every row of the table is stored after the step with the restaurantId it had
KeepsRestaurantId(table, tableAfter) ==
    \A x \in DOMAIN table \cap DOMAIN tableAfter :
        tableAfter[x].restaurantId = table[x].restaurantId

\* C6: a PUT request of a restaurant_admin, whatever adminId or restaurantId
\* its payload carries, leaves every restaurant's adminId and every
\* category's, menu item's and social link's restaurantId as stored.
C6_ProtectedKeysKept ==
    [][(Handled /\ lastReq'.method = "PUT"
               /\ HasRole(lastReq'.session, "restaurant_admin"))
          => (/\ \A r \in DOMAIN restaurants \cap DOMAIN restaurants' :
                     restaurants'[r].adminId = restaurants[r].adminId
              /\ KeepsRestaurantId(categories, categories')
              /\ KeepsRestaurantId(menuItems, menuItems')
              /\ KeepsRestaurantId(socialMediaLinks, socialMediaLinks'))]_vars

\* a restaurant_admin's PUT on a restaurant, with a payload naming another
\* stored user as adminId, was answered 200 and the adminId is not that user's
C6_Witness ==
    /\ lastReq.method = "PUT" /\ lastReq.route = "/api/restaurants/:id"
    /\ lastRes.status = 200
    /\ HasRole(lastReq.session, "restaurant_admin")
    /\ "adminId" \in DOMAIN lastReq.body
    /\ lastReq.body.adminId \in DOMAIN users
    /\ restaurants[lastReq.id].adminId # lastReq.body.adminId

-----------------------------------------------------------------------------
(* C7 *)

\* C7: a super admin's DELETE users/{id} on a stored super_admin is refused
\* and leaves the users table as it was when that user is the only
\* super_admin, and removes the user when two or more super_admins are stored.
C7_SuperAdminDelete ==
    [][(Handled /\ lastReq'.method = "DELETE" /\ lastReq'.route = "/api/users/:id"
               /\ HasRole(lastReq'.session, "super_admin")
               /\ HasRole(lastReq'.id, "super_admin"))
          => IF Cardinality(SuperAdmins) = 1
             THEN lastRes'.status >= 400 /\ users' = users
             ELSE lastRes'.status = 200 /\ lastReq'.id \notin DOMAIN users']_vars

-----------------------------------------------------------------------------
(* C8 *)

\* C8: no operation changes the role of a stored user.
C8_RoleFixed ==
    [][\A u \in DOMAIN users \cap DOMAIN users' : users'[u].role = users[u].role]_vars

\* C8, amended: the role of a stored user changes only by a PUT users/{id} of
\* a super admin on that user, answered 200, whose payload carries the role
\* the user has afterwards; no other operation changes a role.
C8_RoleChangedOnlyBySuperAdminPut ==
    [][\A u \in DOMAIN users \cap DOMAIN users' :
          users'[u].role # users[u].role
             => (/\ Handled
                 /\ lastReq'.method = "PUT" /\ lastReq'.route = "/api/users/:id"
                 /\ lastReq'.id = u
                 /\ HasRole(lastReq'.session, "super_admin")
                 /\ lastRes'.status = 200
                 /\ "role" \in DOMAIN lastReq'.body
                 /\ users'[u].role = lastReq'.body.role)]_vars

\* a PUT users/{id} whose payload carries a role was answered 200 and the
\* user's role is the payload's, not the one the user was seeded with
C8_Witness ==
    /\ lastReq.method = "PUT" /\ lastReq.route = "/api/users/:id"
    /\ lastRes.status = 200
    /\ "role" \in DOMAIN lastReq.body
    /\ lastReq.id \in DOMAIN SeedUsers /\ lastReq.id \in DOMAIN users
    /\ users[lastReq.id].role = lastReq.body.role
    /\ users[lastReq.id].role # SeedUsers[lastReq.id].role

-----------------------------------------------------------------------------
(* C9 *)

\* the session's user may act on the stored restaurant
MayActOn(s, restaurantId) ==
    /\ s \in DOMAIN users
    /\ restaurantId \in DOMAIN restaurants
    /\ HasAccess([id |-> s, role |-> users[s].role], restaurantId)

\* the request creates or updates a menu item of a restaurant the caller may
\* act on, and its payload names a category that is not stored or belongs
\* to another restaurant
NamesForeignCategory(req) ==
    /\ "categoryId" \in DOMAIN req.body
    /\ \/ /\ req.method = "POST"
          /\ req.route = "/api/restaurants/:restaurantId/menu-items"
          /\ MayActOn(req.session, req.id)
          /\ CategoryMismatch(req.body.categoryId, req.id)
       \/ /\ req.method = "PUT" /\ req.route = "/api/menu-items/:id"
          /\ req.id \in DOMAIN menuItems
          /\ MayActOn(req.session, menuItems[req.id].restaurantId)
          /\ CategoryMismatch(req.body.categoryId, menuItems[req.id].restaurantId)

\* every stored menu item's category is stored and of the item's restaurant
MenuItemsInOwnCategories(items, cats) ==
    \A i \in DOMAIN items :
        /\ items[i].categoryId \in DOMAIN cats
        /\ cats[items[i].categoryId].restaurantId = items[i].restaurantId

\* C9: after every request each stored menu item's categoryId names a stored
\* category of the item's restaurant, and a create or update of a menu item
\* that names a category of another restaurant, or no stored category, is
\* answered 400.
C9_MenuItemCategoryChecked ==
    [][Handled
          => (/\ MenuItemsInOwnCategories(menuItems', categories')
              /\ NamesForeignCategory(lastReq') => lastRes'.status = 400)]_vars

-----------------------------------------------------------------------------
(* C10 *)

\* C10: the public menu request for restaurant id r is answered 200 with the
\* menu document of r if r is stored with status active, and otherwise (r
\* not stored, status setup or inactive) 404 without data, whoever calls.
C10_PublicMenuIffActive ==
    [][(Handled /\ lastReq'.route = "/api/public/restaurants/:restaurantId/menu")
          => IF /\ lastReq'.id \in DOMAIN restaurants
                /\ restaurants[lastReq'.id].status = "active"
             THEN /\ lastRes'.status = 200
                  /\ Len(lastRes'.data) = 1
                  /\ lastRes'.data[1].restaurant.id = lastReq'.id
             ELSE lastRes'.status = 404 /\ lastRes'.data = <<>>]_vars

\* a logged-in caller asked for the public menu of a stored restaurant whose
\* status is setup and was answered 404
C10_Witness ==
    /\ lastReq.route = "/api/public/restaurants/:restaurantId/menu"
    /\ lastReq.session \in DOMAIN users
    /\ lastReq.id \in DOMAIN restaurants
    /\ restaurants[lastReq.id].status = "setup"
    /\ lastRes.status = 404

-----------------------------------------------------------------------------
(* C11 *)

\* the step answers a public menu request with the menu document
ServedMenu ==
    /\ Handled
    /\ lastReq'.route = "/api/public/restaurants/:restaurantId/menu"
    /\ lastRes'.status = 200

\* the displayOrder a category is listed by; a missing one counts as 0
DisplayOrderOf(category) ==
    IF category.displayOrder = NULL THEN 0 ELSE category.displayOrder

\* C11: the categories list of a served public menu holds exactly the stored
\* categories of the restaurant, each once, and for consecutive entries c, d
\* c.displayOrder <= d.displayOrder, also when displayOrders are equal or
\* missing.
C11_CategoriesByDisplayOrder ==
    [][ServedMenu
          => LET cats == lastRes'.data[1].categories IN
             /\ Len(cats) = Cardinality(Of(categories, lastReq'.id))
             /\ {cats[i].id : i \in 1..Len(cats)} = Of(categories, lastReq'.id)
             /\ \A i \in 1..(Len(cats) - 1) :
                    DisplayOrderOf(cats[i]) <= DisplayOrderOf(cats[i + 1])]_vars

-----------------------------------------------------------------------------
(* C12 *)

\* the ids of the menu items listed under a returned category
ListedIn(category) == {category.items[k].id : k \in 1..Len(category.items)}

\* C12: in a served public menu every stored menu item of the restaurant is
\* listed under exactly one returned category, the one whose id is the
\* item's categoryId, once; and every listed item is a stored item of that
\* category and of the requested restaurant.
C12_ItemsPartitionedByCategory ==
    [][ServedMenu
          => LET cats == lastRes'.data[1].categories IN
             /\ \A x \in Of(menuItems, lastReq'.id) :
                    /\ Cardinality({i \in 1..Len(cats) : x \in ListedIn(cats[i])}) = 1
                    /\ \A i \in 1..Len(cats) :
                           x \in ListedIn(cats[i]) <=> cats[i].id = menuItems[x].categoryId
             /\ \A i \in 1..Len(cats) :
                    /\ Cardinality(ListedIn(cats[i])) = Len(cats[i].items)
                    /\ \A k \in 1..Len(cats[i].items) :
                           /\ cats[i].items[k].id \in DOMAIN menuItems
                           /\ cats[i].items[k] = WithId(menuItems, cats[i].items[k].id)
                           /\ cats[i].items[k].categoryId = cats[i].id
                           /\ cats[i].items[k].restaurantId = lastReq'.id]_vars

\* a public menu was served with a category that lists an item and a
\* category that lists none, while another restaurant stores a menu item too
C12_Witness ==
    /\ lastReq.route = "/api/public/restaurants/:restaurantId/menu"
    /\ lastRes.status = 200
    /\ \E i, j \in 1..Len(lastRes.data[1].categories) :
           /\ lastRes.data[1].categories[i].items # <<>>
           /\ lastRes.data[1].categories[j].items = <<>>
    /\ \E x \in DOMAIN menuItems : menuItems[x].restaurantId # lastReq.id

-----------------------------------------------------------------------------
(* C13 *)

\* the step is a super admin's add-restaurant action (the restaurants page
\* submits POST /api/restaurants) that completed successfully
RestaurantAdded ==
    /\ Handled
    /\ lastReq'.method = "POST" /\ lastReq'.route = "/api/restaurants"
    /\ HasRole(lastReq'.session, "super_admin")
    /\ lastRes'.status = 201

\* C13: a super admin's successful add-restaurant action leaves exactly one
\* more user, a restaurant_admin, exactly one more restaurant, whose adminId
\* is that new user, and exactly two more activity-log entries, a user
\* creation and a restaurant creation, both attributed to the super admin.
C13_AddRestaurantCreatesAdmin ==
    [][RestaurantAdded
          => (/\ Cardinality(DOMAIN users') = Cardinality(DOMAIN users) + 1
              /\ Cardinality(DOMAIN restaurants') = Cardinality(DOMAIN restaurants) + 1
              /\ \E u \in DOMAIN users' \ DOMAIN users :
                     /\ users'[u].role = "restaurant_admin"
                     /\ \E r \in DOMAIN restaurants' \ DOMAIN restaurants :
                            restaurants'[r].adminId = u
              /\ Len(activityLogs') = Len(activityLogs) + 2
              /\ \A i \in (Len(activityLogs) + 1)..Len(activityLogs') :
                     /\ activityLogs'[i].userId = lastReq'.session
                     /\ activityLogs'[i].action = "create"
              /\ {activityLogs'[i].entityType :
                      i \in (Len(activityLogs) + 1)..Len(activityLogs')}
                    = {"user", "restaurant"})]_vars

-----------------------------------------------------------------------------
(* C14 *)

\* C14: when a super admin's restaurant creation fails for an admin account
\* that was created through the API and owns no restaurant, that account is
\* not left in storage.
C14_NoOrphanedAdmin ==
    [][(/\ Handled
        /\ lastReq'.method = "POST" /\ lastReq'.route = "/api/restaurants"
        /\ HasRole(lastReq'.session, "super_admin")
        /\ lastRes'.status >= 400
        /\ "adminId" \in DOMAIN lastReq'.body
        /\ lastReq'.body.adminId \in DOMAIN users \ DOMAIN SeedUsers
        /\ users[lastReq'.body.adminId].role = "restaurant_admin"
        /\ OwnedBy(lastReq'.body.adminId) = {})
          => lastReq'.body.adminId \notin DOMAIN users']_vars

-----------------------------------------------------------------------------
(* C15 *)

\* C15: no step gives a restaurant_admin that already owns a restaurant
\* another one, by creation or by reassignment of adminId.
C15_OneRestaurantPerAdmin ==
    [][\A u \in DOMAIN users :
          (users[u].role = "restaurant_admin" /\ OwnedBy(u) # {})
             => \A r \in DOMAIN restaurants' :
                    restaurants'[r].adminId = u => r \in OwnedBy(u)]_vars

-----------------------------------------------------------------------------
(* C16 *)

\* C16: a create-restaurant request of a restaurant_admin is rejected and
\* leaves the restaurants as they were.
C16_OnlySuperAdminAddsRestaurant ==
    [][(/\ Handled
        /\ lastReq'.method = "POST" /\ lastReq'.route = "/api/restaurants"
        /\ HasRole(lastReq'.session, "restaurant_admin"))
          => (lastRes'.status >= 400 /\ restaurants' = restaurants)]_vars

-----------------------------------------------------------------------------
(* C17 *)

\* C17: every step keeps each activity-log entry in place with the same
\* field values; steps only add entries.
C17_LogAppendOnly ==
    [][/\ Len(activityLogs') >= Len(activityLogs)
       /\ \A i \in 1..Len(activityLogs) : activityLogs'[i] = activityLogs[i]]_vars

\* the log holds a login and, after it, the entry of a stored change
C17_Witness ==
    /\ Len(activityLogs) = MaxLog
    /\ activityLogs[1].action = "login"
    /\ activityLogs[Len(activityLogs)].action \in {"create", "update", "delete"}

-----------------------------------------------------------------------------
(* C18 *)

\* the step is a create, update or delete of an entity that was answered
\* with success
EntityChanged ==
    /\ Handled
    /\ lastReq'.method \in {"POST", "PUT", "DELETE"}
    /\ lastReq'.route \notin {"/api/auth/login", "/api/auth/logout"}
    /\ lastRes'.status \in {200, 201}

ActionOf(method) ==
    IF method = "POST" THEN "create" ELSE IF method = "PUT" THEN "update" ELSE "delete"

EntityTypeOf(route) ==
    IF route \in {"/api/users", "/api/users/:id"} THEN "user"
    ELSE IF route \in {"/api/restaurants", "/api/restaurants/:id"} THEN "restaurant"
    ELSE IF route \in {"/api/restaurants/:restaurantId/categories", "/api/categories/:id"}
    THEN "category"
    ELSE IF route \in {"/api/restaurants/:restaurantId/menu-items", "/api/menu-items/:id"}
    THEN "menuItem"
    ELSE IF route \in {"/api/restaurants/:restaurantId/social-media", "/api/social-media/:id"}
    THEN "socialMediaLink"
    ELSE "qrCode"

\* the id of the entity a successful request created (returned in the
\* response), updated or deleted (named in the path)
EntityIdOf(req, res) == IF req.method = "POST" THEN res.data[1].id ELSE req.id

\* the restaurant that owns the entity: the restaurant itself, or the
\* restaurant of a child as stored before the request
OwningRestaurant(req, res) ==
    IF EntityTypeOf(req.route) = "restaurant" THEN EntityIdOf(req, res)
    ELSE IF req.method = "POST" THEN req.id
    ELSE Target(req)

LoggedRestaurant(req, res) ==
    IF req.method = "DELETE" /\ req.route = "/api/restaurants/:id" THEN NULL
    ELSE OwningRestaurant(req, res)

-----------------------------------------------------------------------------
(* C19 *)

\* C19: in every reachable state every restaurant's adminId is the id of a
\* stored user.
C19_AdminIdNamesUser ==
    \A r \in DOMAIN restaurants : restaurants[r].adminId \in DOMAIN users

\* a super admin's DELETE of a user that administers a restaurant was
\* refused, and the user is still stored
C19_Witness ==
    /\ lastReq.method = "DELETE" /\ lastReq.route = "/api/users/:id"
    /\ HasRole(lastReq.session, "super_admin")
    /\ lastReq.id \in DOMAIN users
    /\ OwnedBy(lastReq.id) # {}
    /\ lastRes.status = 500

-----------------------------------------------------------------------------
(* C20 *)

\* C20: after a successful DELETE of a restaurant no stored category, menu
\* item, social media link or QR code has the restaurant's id as restaurantId.
C20_NoChildOfDeletedRestaurant ==
    [][(/\ Handled
        /\ lastReq'.method = "DELETE" /\ lastReq'.route = "/api/restaurants/:id"
        /\ lastRes'.status = 200)
          => (/\ lastReq'.id \notin DOMAIN restaurants'
              /\ Of(categories', lastReq'.id) = {}
              /\ Of(menuItems', lastReq'.id) = {}
              /\ Of(socialMediaLinks', lastReq'.id) = {}
              /\ Of(qrCodes', lastReq'.id) = {})]_vars

\* a stored restaurant was deleted with success while other restaurants
\* keep their categories
C20_Witness ==
    /\ lastReq.method = "DELETE" /\ lastReq.route = "/api/restaurants/:id"
    /\ lastRes.status = 200
    /\ lastReq.id \in DOMAIN SeedRestaurants
    /\ lastReq.id \notin DOMAIN restaurants
    /\ DOMAIN categories # {}

-----------------------------------------------------------------------------
(* C21 *)

\* the rows of a response, as a set
Listed(res) == {res.data[i] : i \in 1..Len(res.data)}

\* C21: GET restaurants answers a super_admin with exactly the stored
\* restaurants and a restaurant_admin with exactly the stored restaurants
\* whose adminId is the caller's id, each listed once.
C21_RestaurantListScoped ==
    [][(Handled /\ lastReq'.method = "GET" /\ lastReq'.route = "/api/restaurants"
               /\ lastReq'.session \in DOMAIN users)
          => LET me == lastReq'.session
                 scope == IF users[me].role = "super_admin" THEN DOMAIN restaurants
                          ELSE {r \in DOMAIN restaurants : restaurants[r].adminId = me}
             IN /\ lastRes'.status = 200
                /\ Listed(lastRes') = {WithId(restaurants, r) : r \in scope}
                /\ Len(lastRes'.data) = Cardinality(scope)]_vars

\* a restaurant_admin that owns a restaurant was answered with a list that
\* is neither empty nor the whole table
C21_Witness ==
    /\ lastReq.method = "GET" /\ lastReq.route = "/api/restaurants"
    /\ HasRole(lastReq.session, "restaurant_admin")
    /\ lastRes.status = 200
    /\ lastRes.data # <<>>
    /\ Len(lastRes.data) < Cardinality(DOMAIN restaurants)
    /\ \E r \in DOMAIN restaurants : restaurants[r].adminId # lastReq.session

-----------------------------------------------------------------------------
(* C22 *)

SuperAdminRoutes == {"/api/users", "/api/users/:id", "/api/activity"}

\* C22: every request to the user-management routes or to the global
\* activity route by an authenticated caller whose role is not super_admin
\* is answered 403, returns no data and leaves the users table unchanged.
C22_UserRoutesSuperAdminOnly ==
    [][(Handled /\ lastReq'.route \in SuperAdminRoutes
               /\ lastReq'.session \in DOMAIN users
               /\ users[lastReq'.session].role # "super_admin")
          => (lastRes'.status = 403 /\ lastRes'.data = <<>> /\ UNCHANGED users)]_vars

\* a restaurant_admin sent a PUT that would make a stored user a super
\* admin, or a valid POST of a new user, and was refused
C22_Witness ==
    /\ lastReq.route \in SuperAdminRoutes
    /\ HasRole(lastReq.session, "restaurant_admin")
    /\ \/ /\ lastReq.method = "PUT" /\ lastReq.id \in DOMAIN users
          /\ lastReq.body = [role |-> "super_admin"]
       \/ /\ lastReq.method = "POST"
          /\ lastReq.body = [username |-> "c", password |-> "pw"]
    /\ lastRes.status = 403

-----------------------------------------------------------------------------
(* C23 *)

CreateRoutes ==
    {"/api/users", "/api/restaurants",
     "/api/restaurants/:restaurantId/categories",
     "/api/restaurants/:restaurantId/menu-items",
     "/api/restaurants/:restaurantId/social-media",
     "/api/restaurants/:restaurantId/qr-codes"}

\* the step created an entity
Created == Handled /\ lastReq'.method = "POST" /\ lastReq'.route \in CreateRoutes
              /\ lastRes'.status = 201

\* the columns of the entity a create route inserts
KeysOf(route) ==
    IF route = "/api/users" THEN UserKeys
    ELSE IF route = "/api/restaurants" THEN RestaurantKeys
    ELSE IF route = "/api/restaurants/:restaurantId/categories" THEN CategoryKeys
    ELSE IF route = "/api/restaurants/:restaurantId/menu-items" THEN MenuItemKeys
    ELSE IF route = "/api/restaurants/:restaurantId/social-media" THEN SocialMediaLinkKeys
    ELSE QRCodeKeys

\* the entity a create step stored, fetched by its id after the step:
\* GET users/{id} for a user (the response carries no password), the
\* stored row for the others
FetchedById(route) ==
    IF route = "/api/users" THEN Delete(users'[serial.users], "password")
    ELSE IF route = "/api/restaurants" THEN restaurants'[serial.restaurants]
    ELSE IF route = "/api/restaurants/:restaurantId/categories"
    THEN categories'[serial.categories]
    ELSE IF route = "/api/restaurants/:restaurantId/menu-items"
    THEN menuItems'[serial.menuItems]
    ELSE IF route = "/api/restaurants/:restaurantId/social-media"
    THEN socialMediaLinks'[serial.socialMediaLinks]
    ELSE qrCodes'[serial.qrCodes]

\* the fetched entity carries the payload's value of column k
Kept(req, k) ==
    /\ k \in DOMAIN FetchedById(req.route)
    /\ FetchedById(req.route)[k] = req.body[k]

SetByRoute(req) ==
    (IF req.route = "/api/users" THEN {"password"} ELSE {})
       \cup (IF req.route \notin {"/api/users", "/api/restaurants"}
             THEN {"restaurantId"} ELSE {})
       \cup (IF req.route = "/api/restaurants" /\ ~HasRole(req.session, "super_admin")
             THEN {"adminId"} ELSE {})

-----------------------------------------------------------------------------
(* C24 *)

\* C24: no two stored users have the same username.
C24_UsernamesUnique ==
    \A u, v \in DOMAIN users : users[u].username = users[v].username => u = v

\* a super admin tried to give a stored user the username of another stored
\* user, or to create a user under a stored username, and the request failed
C24_Witness ==
    /\ lastReq.route \in {"/api/users", "/api/users/:id"}
    /\ lastReq.method \in {"POST", "PUT"}
    /\ "username" \in DOMAIN lastReq.body
    /\ \E u \in DOMAIN users : u # lastReq.id /\ users[u].username = lastReq.body.username
    /\ lastRes.status = 500

-----------------------------------------------------------------------------
(* C25 *)

Rejections == {400, 401, 403, 404}

\* C25: a request answered 400, 401, 403 or 404 leaves every entity table
\* and the activity log exactly as they were before the request.
C25_RejectedLeavesStorage ==
    [][(Handled /\ lastRes'.status \in Rejections)
          => UNCHANGED <<tables, activityLogs>>]_vars

\* the owner of a restaurant asked for a menu item in a category of another
\* restaurant and was answered 400; a valid payload would have been stored
C25_Witness ==
    /\ lastReq.method = "POST"
    /\ lastReq.route = "/api/restaurants/:restaurantId/menu-items"
    /\ lastReq.id \in DOMAIN restaurants
    /\ restaurants[lastReq.id].adminId = lastReq.session
    /\ "categoryId" \in DOMAIN lastReq.body
    /\ lastReq.body.categoryId \in DOMAIN categories
    /\ lastRes.status = 400
    /\ Len(activityLogs) < MaxLog

-----------------------------------------------------------------------------
(* C26 *)

\* the admin restaurant r had when the server started
FirstAdmin(r) == SeedRestaurants[r].adminId

\* restaurant r has been given another admin since; only a super admin's
\* PUT restaurants/{id} changes adminId
Reassigned(r) ==
    /\ r \in DOMAIN SeedRestaurants /\ r \in DOMAIN restaurants
    /\ restaurants[r].adminId # FirstAdmin(r)

\* a request scoped to its restaurant's owner: every request on a restaurant
\* or on a child of one, but DELETE restaurants/{id}, which is the super
\* admin's
OwnerScoped(req) ==
    /\ Target(req) # Undefined
    /\ ~(req.method = "DELETE" /\ req.route = "/api/restaurants/:id")

\* C26: once a super_admin has changed restaurant R's adminId from user A
\* to user B, every scoped request of A on R or on R's children is answered
\* 403 and changes nothing, and the same requests of B are not refused for
\* lack of access.
C26_DecidedFromCurrentOwner ==
    [][(Handled /\ OwnerScoped(lastReq') /\ Reassigned(Target(lastReq')))
          => LET r == Target(lastReq') IN
             /\ lastReq'.session = FirstAdmin(r)
                   => (lastRes'.status = 403 /\ UNCHANGED tables)
             /\ lastReq'.session = restaurants[r].adminId
                   => lastRes'.status \notin {401, 403}]_vars

-----------------------------------------------------------------------------
(* C27 *)

\* C27: whatever the interleaving of the storage steps of concurrent DELETE
\* users/{id} requests on distinct super admins, every reachable state holds
\* at least one user with role super_admin.
C27_SuperAdminRemains ==
    \E u \in DOMAIN users : users[u].role = "super_admin"

\* two deletions of distinct super admins both passed the count of super
\* admins: one has removed its user and not yet logged, the other was
\* answered 500 by the storage
C27_Witness ==
    /\ lastReq.method = "DELETE" /\ lastReq.route = "/api/users/:id"
    /\ lastRes.status = 500
    /\ lastReq.id \in SuperAdmins
    /\ \E p \in Procs :
          /\ At(p, "createActivityLog", "DELETE", "/api/users/:id")
          /\ pending[p].row.role = "super_admin"
          /\ pending[p].req.id # lastReq.id
          /\ pending[p].req.id \notin DOMAIN users

-----------------------------------------------------------------------------
(* C28 *)

\* the step applies the update or delete of the handler running in p
Applies(p) ==
    /\ pending[p].pc = "write"
    /\ pending'[p].pc = "createActivityLog"
    /\ pending[p].req.route \in ChildRoutes

\* C28: whatever the interleaving with a super admin's reassignment or
\* deletion of the restaurant, the step that applies a restaurant admin's
\* update or delete of a category, menu item, social link or QR code is
\* taken in a state where the child's restaurant is stored with the writer
\* as its adminId.
C28_WrittenWhileOwner ==
    [][\A p \in Procs :
          (Applies(p) /\ pending[p].user.role = "restaurant_admin")
             => (/\ pending[p].row.restaurantId \in DOMAIN restaurants
                 /\ restaurants[pending[p].row.restaurantId].adminId = pending[p].user.id)]_vars

-----------------------------------------------------------------------------
(* C29 *)

\* the request carries a session whose user is no longer stored
FromDeletedUser(req) == req.session \in sessions /\ req.session \notin DOMAIN users

\* C29: once a user has been deleted, a request that carries the session of
\* that user's login to any route behind the authentication middleware is
\* answered 401, returns nothing and leaves every table and the activity
\* log as they were.
C29_SessionDoesNotOutliveUser ==
    [][(Handled /\ lastReq'.route \notin PublicRoutes /\ FromDeletedUser(lastReq'))
          => (lastRes'.status = 401 /\ lastRes'.data = <<>>
                /\ UNCHANGED <<tables, activityLogs>>)]_vars

\* root was deleted while its login was in flight; its session asked for the
\* list of restaurants and was answered 401
C29_Witness ==
    /\ FromDeletedUser(lastReq)
    /\ lastReq.session \in DOMAIN SeedTwoSuperAdmins
    /\ lastReq.method = "GET" /\ lastReq.route = "/api/restaurants"
    /\ lastRes.status = 401

-----------------------------------------------------------------------------
(* C30 *)

\* C30: when the public menu of an active restaurant with at least one
\* stored social media link is served, the list of links the page reads from
\* the document is the list of the restaurant's stored social media links.
C30_PageReadsStoredLinks ==
    [][(ServedMenu /\ Of(socialMediaLinks, lastReq'.id) # {})
          => PublicMenuSocialLinks(lastRes'.data[1])
                = Rows(socialMediaLinks, Of(socialMediaLinks, lastReq'.id))]_vars

=============================================================================
